---- MODULE Spec2Model ----
(***************************************************************************)
(* Request-for-quote intake: the storefront proxy action with its          *)
(* in-memory rate limiter, the schema provisioning routines, the settings  *)
(* save action and the app loader, against a remote record store.          *)
(*                                                                         *)
(* Code between two awaits of a handler runs atomically (single-threaded   *)
(* event loop), so every action below is one such segment: it ends at the  *)
(* next remote call or at the response.                                    *)
(***************************************************************************)
EXTENDS Integers, Sequences, FiniteSets, TLC

VARIABLES
  now,              \* Date.now(), in milliseconds
  rateLimitMap,     \* Map<string, {count, resetTime}>: a function on its keys
  cleanupCounter,   \* let cleanupCounter = 0
  resendConfigured, \* process.env.RESEND_API_KEY is set
  defs,             \* remote store: definitions that exist, per shop
  metaobjects,      \* remote store: records per shop and type
  procs,            \* the handlers in flight
  nreq,             \* history: number of handler invocations started so far
  hist,             \* history: per email, the time of its first request that
                    \* reached the limiter and how many did within the hour
  unsweptMap        \* the map of the same limiter run without the sweep

vars == <<now, rateLimitMap, cleanupCounter, resendConfigured, defs,
          metaobjects, procs, nreq, hist, unsweptMap>>

----------------------------------------------------------------------------
(* Bounds of the model *)

MaxRequests == 2        \* handler invocations in a behaviour of Spec
MaxProvRequests == 2    \* handler invocations in a behaviour of SpecProv
MaxRateRequests == 52   \* intake requests in a behaviour of SpecRate
MaxOtherRequests == 1   \* the first so many of them may name the second email
MaxInvalidRequests == 1 \* and so many of them may fail validation
MaxWindows == 2         \* the clock runs up to this many windows
MaxSkew == 1            \* and this many single milliseconds past each
MaxEmailLen == 6        \* customerEmail strings enumerated in SpecValidate
MaxSettingsRequests == 2 \* handler invocations in a behaviour of SpecSettings
MaxRaceRequests == 52   \* intake requests in a behaviour of SpecRace
MaxRaceLag == 2         \* requests that arrive while one request is in flight
MaxSubmissions == 1     \* intake requests in a behaviour of SpecStatus
MaxOptionsRequests == 2 \* handler invocations in SpecOptions
MaxStatusActions == 2   \* and submissions page actions after them
MaxCaseRequests == 52   \* intake requests in a behaviour of SpecCase
MaxUpperRequests == 2   \* the first so many may spell the email in upper case
MaxReaderRequests == 3  \* handler invocations in a behaviour of SpecReaders
MaxSlotsRequests == 52  \* intake requests in a behaviour of SpecSlots
MaxFaultyRequests == 2  \* the first so many may name the second shop or fail
MaxSweepRequests == 101 \* intake requests in a behaviour of SpecSweep
MaxSweepWindows == 1    \* the clock of SpecSweep runs up to this many windows
MaxSweepLead == 2       \* and advances within so many executions of a sweep

Procs == {1, 2}

----------------------------------------------------------------------------
(* Program constants *)

RATE_LIMIT_MAX == 50
RATE_LIMIT_WINDOW_MS == 60 * 60 * 1000
CleanupEvery == 100

RFQ_SUBMISSION_TYPE == "rfq_submission"
RFQ_SETTINGS_TYPE == "rfq_settings"
AppSettingsType == "$app:rfq_settings"
MfEnabled == "custom.rfq_enabled"
MfHidePrice == "custom.rfq_hide_price"

DefaultPhoneNumber == "+353 (0)1 8118920"
DefaultFormTitle == "Request a Quote"
DefaultFormDescription == "Or feel free to call us"
DefaultSuccessMessage == "Thank you! We will get back to you shortly."

\* the body the settings loader answers with when it has nothing stored
DefaultSettings ==
  [phoneNumber |-> DefaultPhoneNumber, formTitle |-> DefaultFormTitle,
   formDescription |-> DefaultFormDescription,
   successMessage |-> DefaultSuccessMessage]

\* the choices validation of the status field of the submission definition
StatusChoices == {"pending", "contacted", "quoted", "completed", "cancelled"}

DefNames == {RFQ_SUBMISSION_TYPE, RFQ_SETTINGS_TYPE, MfEnabled, MfHidePrice}
TypeNames == {RFQ_SUBMISSION_TYPE, RFQ_SETTINGS_TYPE, AppSettingsType}

----------------------------------------------------------------------------
(* Values *)

\* formData.get(name) of a field that was not sent
Null == "<null>"
NullEmail == <<Null>>

\* !value for a string-or-null
Falsy(v) == v = Null \/ v = ""
FalsyEmail(e) == e = NullEmail \/ e = <<>>

\* value || ""
OrEmpty(v) == IF Falsy(v) THEN "" ELSE v

IsSpace(c) == c \in {" ", "\t"}

\* String.prototype.toLowerCase on the characters used here
LowerChar(c) ==
  CASE c = "A" -> "a"
    [] c = "B" -> "b"
    [] c = "C" -> "c"
    [] OTHER -> c

toLowerCase_identity(e) == e

toLowerCase(e) == [i \in 1..Len(e) |-> LowerChar(e[i])]

\* /^[^\s@]+@[^\s@]+\.[^\s@]+$/.test(e): the string is X@Y.Z with X, Y, Z
\* non-empty and free of whitespace and of "@"
emailRegexTest_permissive(e) ==
  \E i \in 1..Len(e) : e[i] = "@"

emailRegexTest(e) ==
  \E i \in 1..Len(e) : \E j \in 1..Len(e) :
    /\ e[i] = "@"
    /\ e[j] = "."
    /\ i > 1
    /\ j > i + 1
    /\ j < Len(e)
    /\ \A k \in 1..Len(e) : k # i => (~IsSpace(e[k]) /\ e[k] # "@")

\* if (!shop || !customerName || !customerEmail)
MissingRequired_withDetails(f) ==
  \/ Falsy(f.shop)
  \/ Falsy(f.customerName)
  \/ FalsyEmail(f.customerEmail)
  \/ Falsy(f.requestDetails)

MissingRequired(f) ==
  \/ Falsy(f.shop)
  \/ Falsy(f.customerName)
  \/ FalsyEmail(f.customerEmail)

----------------------------------------------------------------------------
(* The rate limiter *)

HasRecord(map, email) == email \in DOMAIN map

\* now > record.resetTime
WindowElapsed_late(record, t) == t > record.resetTime + 1

WindowElapsed(record, t) == t > record.resetTime

\* record.count >= RATE_LIMIT_MAX
LimitReached_offByOne(record) == record.count > RATE_LIMIT_MAX

LimitReached(record) == record.count >= RATE_LIMIT_MAX

StartsFreshWindow_always(map, email, t) == TRUE

StartsFreshWindow(map, email, t) ==
  ~HasRecord(map, email) \/ WindowElapsed(map[email], t)

\* the value checkRateLimit(email) returns
checkRateLimit(map, email, t) ==
  \/ StartsFreshWindow(map, email, t)
  \/ ~LimitReached(map[email])

\* the map checkRateLimit(email) leaves behind
checkRateLimitMap_noIncrement(map, email, t) ==
  IF StartsFreshWindow(map, email, t)
  THEN [k \in DOMAIN map \cup {email} |->
          IF k = email
          THEN [count |-> 1, resetTime |-> t + RATE_LIMIT_WINDOW_MS]
          ELSE map[k]]
  ELSE map

checkRateLimitMap_sliding(map, email, t) ==
  IF StartsFreshWindow(map, email, t)
  THEN [k \in DOMAIN map \cup {email} |->
          IF k = email
          THEN [count |-> 1, resetTime |-> t + RATE_LIMIT_WINDOW_MS]
          ELSE map[k]]
  ELSE IF LimitReached(map[email])
  THEN map
  ELSE [map EXCEPT ![email] =
          [count |-> @.count + 1, resetTime |-> t + RATE_LIMIT_WINDOW_MS]]

checkRateLimitMap(map, email, t) ==
  IF StartsFreshWindow(map, email, t)
  THEN [k \in DOMAIN map \cup {email} |->
          IF k = email
          THEN [count |-> 1, resetTime |-> t + RATE_LIMIT_WINDOW_MS]
          ELSE map[k]]
  ELSE IF LimitReached(map[email])
  THEN map
  ELSE [map EXCEPT ![email].count = @ + 1]

\* the map cleanupRateLimitMap() leaves behind, counter being the
\* incremented cleanupCounter
cleanupRateLimitMap_inclusive(map, counter, t) ==
  IF counter % CleanupEvery = 0
  THEN [k \in {e \in DOMAIN map : ~(t >= map[e].resetTime)} |-> map[k]]
  ELSE map

cleanupRateLimitMap_all(map, counter, t) ==
  IF counter % CleanupEvery = 0 THEN <<>> ELSE map

cleanupRateLimitMap(map, counter, t) ==
  IF counter % CleanupEvery = 0
  THEN [k \in {e \in DOMAIN map : ~(t > map[e].resetTime)} |-> map[k]]
  ELSE map

----------------------------------------------------------------------------
(* Inputs and handler state *)

Shops == {"shop1", "shop2"}

EmailA == <<"a", "@", "b", ".", "c">>
EmailAUpper == <<"A", "@", "b", ".", "c">>
EmailB == <<"b", "@", "b", ".", "c">>
EmailNoDot == <<"a", "@", "b", "c">>
EmailTwoAts == <<"a", "@", "@", "b", ".", "c">>

MerchantEmail == "merchant@shop"

NoForm ==
  [route |-> "", method |-> "", shop |-> Null, customerName |-> Null,
   customerEmail |-> NullEmail, requestDetails |-> Null]

NoSettingsForm ==
  [settingsId |-> 0, notificationEmail |-> "", phoneNumber |-> "",
   formTitle |-> "", formDescription |-> "", successMessage |-> ""]

NoResp == [status |-> 0, body |-> "none", text |-> "", headers |-> {}]

\* the headers object of a storefront route: pairs of name and value
corsHeaders(route) ==
  {<<"Access-Control-Allow-Origin", "*">>,
   <<"Access-Control-Allow-Methods", "GET, POST, OPTIONS">>,
   <<"Access-Control-Allow-Headers", "Content-Type">>}
  \cup (IF route = "proxy"
        THEN {<<"X-Content-Type-Options", "nosniff">>,
              <<"X-Frame-Options", "DENY">>}
        ELSE {})

\* the body of a settings loader response that carries no settings
NoSettings ==
  [phoneNumber |-> "", formTitle |-> "", formDescription |-> "",
   successMessage |-> ""]

\* the form of the submissions page action
NoUpdateForm == [action |-> "", id |-> 0, status |-> ""]

\* history of one provisioning call: whether the definition existed when
\* it was looked up, what the lookup found, the create calls issued, the
\* answer to the last one and what the routine returned
NoEns ==
  [present |-> FALSE, found |-> FALSE, creates |-> 0, answer |-> "none",
   result |-> "none"]

IdleProc ==
  [kind |-> "none", pc |-> "idle", id |-> 0, shop |-> "",
   form |-> NoForm, sform |-> NoSettingsForm, uform |-> NoUpdateForm,
   gate |-> "none", formRead |-> FALSE, admitted |-> FALSE,
   admittedUnswept |-> FALSE, nth |-> 0,
   todo |-> <<>>, ens |-> [d \in DefNames |-> NoEns],
   mf |-> [d \in {MfEnabled, MfHidePrice} |-> "idle"],
   calls |-> {}, faults |-> {}, failedAt |-> "none",
   createData |-> "none", created |-> {},
   notificationEmail |-> Null, successMessage |-> "",
   notified |-> "none", logged |-> FALSE, sendResult |-> "none",
   hasSettings |-> FALSE, submissionsCount |-> 0, pendingCount |-> 0,
   settings |-> NoSettings, resp |-> NoResp]

Free(p) == procs[p].pc \in {"idle", "done"}

\* the responses of the storefront routes (the intake action and the
\* settings loader) are built with headers: corsHeaders, the others without
ResponseHeaders(pr, body) ==
  IF pr.kind \in {"intake", "settingsRead"} /\ body # "thrown"
  THEN corsHeaders(pr.form.route)
  ELSE {}

Respond(pr, status, body, text) ==
  [pr EXCEPT !.pc = "done",
             !.resp = [status |-> status, body |-> body, text |-> text,
                       headers |-> ResponseHeaders(pr, body)]]

\* the catch block of the handler: the intake action answers 500, the
\* settings loader answers with the defaults, the other loaders and the
\* actions of the admin pages let the error escape
Fail_rethrows(pr, at) ==
  Respond([pr EXCEPT !.failedAt = at], 500, "thrown", "")

Fail_swallowed(pr, at) ==
  [pr EXCEPT !.failedAt = at, !.pc = "persist", !.todo = <<>>]

Fail(pr, at) ==
  IF pr.kind = "intake"
  THEN Respond([pr EXCEPT !.failedAt = at], 500, "error",
               "Failed to process submission")
  ELSE IF pr.kind = "settingsRead"
  THEN Respond([pr EXCEPT !.failedAt = at, !.settings = DefaultSettings],
               200, "settings", "")
  ELSE Respond([pr EXCEPT !.failedAt = at], 500, "thrown", "")

\* history: the remote call of this kind did not succeed
Fault(pr, kind) == [pr EXCEPT !.faults = @ \cup {kind}]

----------------------------------------------------------------------------
(* The remote record store *)

RecordsOf(shop, type) == metaobjects[shop][type]

\* metaobjects(type, first: 1).nodes[0]
FirstNode(shop, type) ==
  IF Len(RecordsOf(shop, type)) > 0
  THEN <<RecordsOf(shop, type)[1]>>
  ELSE <<>>

\* the definition a record type needs before records of it can be created
TypeDefined(shop, type) == type \in defs[shop]

\* answers the store can give to a definition create: "created" only while
\* the definition is absent, "taken" only while it exists
DefCreateAnswers(shop, d) ==
  IF d \in defs[shop]
  THEN {"taken", "errors", "throw"}
  ELSE {"created", "invalid", "errors", "throw"}

\* answers the store can give to a record create
RecordCreateAnswers(shop, type, handle) ==
  IF TypeDefined(shop, type)
     /\ \A i \in 1..Len(RecordsOf(shop, type)) :
           RecordsOf(shop, type)[i].handle # handle
  THEN {"ok", "userErrors", "errors", "throw"}
  ELSE {"userErrors", "errors", "throw"}

----------------------------------------------------------------------------
(* Intake action: from the request to the first remote call *)

\* the branch the synchronous prefix of the action takes; allowed is the
\* value checkRateLimit returns (evaluated for the rate-limited route only)
IntakeGate_noLimitReturn(f, allowed) ==
  IF f.method = "OPTIONS" THEN "options"
  ELSE IF MissingRequired(f) THEN "missing"
  ELSE IF ~emailRegexTest(f.customerEmail) THEN "badEmail"
  ELSE "pass"

IntakeGate_validatesFirst(f, allowed) ==
  IF MissingRequired(f) THEN "missing"
  ELSE IF f.method = "OPTIONS" THEN "options"
  ELSE IF ~emailRegexTest(f.customerEmail) THEN "badEmail"
  ELSE IF f.route = "proxy" /\ ~allowed THEN "limited"
  ELSE "pass"

IntakeGate(f, allowed) ==
  IF f.method = "OPTIONS" THEN "options"
  ELSE IF MissingRequired(f) THEN "missing"
  ELSE IF ~emailRegexTest(f.customerEmail) THEN "badEmail"
  ELSE IF f.route = "proxy" /\ ~allowed THEN "limited"
  ELSE "pass"

\* the rate-limiting step runs for requests that got past both validations
ReachesLimiter_beforeValidation(f) ==
  /\ f.route = "proxy"
  /\ f.method # "OPTIONS"

ReachesLimiter(f) ==
  /\ f.route = "proxy"
  /\ f.method # "OPTIONS"
  /\ ~MissingRequired(f)
  /\ emailRegexTest(f.customerEmail)

\* history: a request for the email reaches the limiter at time t
Observe(h, key, t) ==
  IF key \notin DOMAIN h
  THEN [k \in DOMAIN h \cup {key} |->
          IF k = key THEN [first |-> t, seen |-> 1] ELSE h[k]]
  ELSE IF t <= h[key].first + 3600000
  THEN [h EXCEPT ![key].seen = @ + 1]
  ELSE h

\* history: the rank of that request among those of the email's first hour
NthInHour(h, key, t) ==
  IF t <= h[key].first + 3600000 THEN h[key].seen ELSE 0

IntakeStart(p, f) ==
  /\ Free(p)
  /\ nreq' = nreq + 1
  /\ LET key == toLowerCase(f.customerEmail)
         counter == cleanupCounter + 1
         swept == cleanupRateLimitMap(rateLimitMap, counter, now)
         allowed == IF ReachesLimiter(f)
                    THEN checkRateLimit(swept, key, now)
                    ELSE FALSE
         gate == IntakeGate(f, allowed)
         seen == Observe(hist, key, now)
         pr == [IdleProc EXCEPT !.kind = "intake", !.id = nreq + 1,
                                !.form = f, !.shop = f.shop,
                                !.gate = gate, !.admitted = allowed,
                                !.admittedUnswept =
                                  ReachesLimiter(f)
                                  /\ checkRateLimit(unsweptMap, key, now),
                                !.formRead = gate # "options",
                                !.nth = IF ReachesLimiter(f)
                                        THEN NthInHour(seen, key, now)
                                        ELSE 0]
     IN /\ IF ReachesLimiter(f)
           THEN /\ cleanupCounter' = counter
                /\ rateLimitMap' = checkRateLimitMap(swept, key, now)
                /\ hist' = seen
                /\ unsweptMap' = checkRateLimitMap(unsweptMap, key, now)
           ELSE UNCHANGED <<cleanupCounter, rateLimitMap, hist,
                 unsweptMap>>
        /\ procs' = [procs EXCEPT ![p] =
             CASE gate = "options" -> Respond(pr, 200, "empty", "")
               [] gate = "missing" ->
                    Respond(pr, 400, "error", "Missing required fields")
               [] gate = "badEmail" ->
                    Respond(pr, 400, "error", "Invalid email format")
               [] gate = "limited" ->
                    Respond(pr, 429, "error",
                            "Too many requests. Please try again later.")
               [] OTHER -> [pr EXCEPT !.pc = "auth"]]
  /\ UNCHANGED <<now, resendConfigured, defs, metaobjects>>

----------------------------------------------------------------------------
(* Authorization lookup: unauthenticated.admin(shop) / authenticate.admin *)

\* the definitions a handler provisions, in order, once it is authorized
ProvisionList(pr) ==
  CASE pr.kind = "intake" /\ pr.form.route = "proxy" -> <<RFQ_SUBMISSION_TYPE>>
    [] pr.kind = "appLoad" -> <<RFQ_SETTINGS_TYPE, RFQ_SUBMISSION_TYPE>>
    [] pr.kind = "settingsSave" /\ pr.sform.settingsId = 0 -> <<RFQ_SETTINGS_TYPE>>
    [] pr.kind = "settingsRead" /\ pr.form.route = "proxy" -> <<RFQ_SETTINGS_TYPE>>
    [] pr.kind = "dashboardLoad" -> <<RFQ_SUBMISSION_TYPE>>
    [] OTHER -> <<>>

\* where a handler continues when its sequential provisioning is through
AfterProvision_alwaysCreate(pr) ==
  CASE pr.kind = "intake" -> "persist"
    [] pr.kind = "appLoad" -> "mfDefs"
    [] pr.kind = "settingsSave" -> "createSettings"
    [] pr.kind = "settingsRead" -> "readSettings"
    [] pr.kind = "submissionAction" -> "submit"
    [] pr.kind = "dashboardLoad" -> "dashSettings"
    [] OTHER -> "update"

AfterProvision(pr) ==
  CASE pr.kind = "intake" -> "persist"
    [] pr.kind = "appLoad" -> "mfDefs"
    [] pr.kind = "settingsSave" /\ pr.sform.settingsId = 0 -> "createSettings"
    [] pr.kind = "settingsRead" -> "readSettings"
    [] pr.kind = "submissionAction" -> "submit"
    [] pr.kind = "dashboardLoad" -> "dashSettings"
    [] OTHER -> "update"

\* the settings action alone looks at session.shop
AuthAnswers(pr) ==
  IF pr.kind = "settingsSave"
  THEN {"ok", "throw", "noShop"}
  ELSE {"ok", "throw"}

Auth(p, outcome) ==
  /\ procs[p].pc = "auth"
  /\ outcome \in AuthAnswers(procs[p])
  /\ LET pr == [procs[p] EXCEPT !.calls = @ \cup {"auth"}]
         list == ProvisionList(pr)
     IN procs' = [procs EXCEPT ![p] =
          IF outcome = "throw" THEN Fail(Fault(pr, "auth"), "auth")
          ELSE IF outcome = "noShop"
          THEN Respond(pr, 401, "error",
                       "Missing shop in session. Please reload the app.")
          ELSE IF list # <<>>
          THEN [pr EXCEPT !.pc = "ensCheck", !.todo = list]
          ELSE [pr EXCEPT !.pc = AfterProvision(pr)]]
  /\ UNCHANGED <<now, rateLimitMap, cleanupCounter, resendConfigured, defs,
                 metaobjects, nreq, hist,
                 unsweptMap>>

----------------------------------------------------------------------------
(* ensureRfqSubmissionType / ensureRfqSettingsType *)

\* if (checkData?.data?.metaobjectDefinitionByType?.id) return true
EnsureSkipsCreate_never(found) == FALSE

EnsureSkipsCreate(found) == found

\* what the routine does with the answer to its create call
ensureTypeResult(answer) ==
  IF answer = "created" THEN "true" ELSE "throw"

\* the handler moves on to the next definition of its list
NextDefinition(pr) ==
  IF Len(pr.todo) > 1
  THEN [pr EXCEPT !.pc = "ensCheck", !.todo = Tail(@)]
  ELSE [pr EXCEPT !.pc = AfterProvision(pr), !.todo = <<>>]

EnsureCheck(p, outcome) ==
  /\ procs[p].pc = "ensCheck"
  /\ outcome \in {"answer", "throw"}
  /\ LET d == Head(procs[p].todo)
         found == d \in defs[procs[p].shop]
         pr == [procs[p] EXCEPT !.calls = @ \cup {"defCheck"}]
     IN procs' = [procs EXCEPT ![p] =
          IF outcome = "throw"
          THEN Fail(Fault([pr EXCEPT !.ens[d].result = "throw"], "defCheck"),
                    "defCheck")
          ELSE IF EnsureSkipsCreate(found)
          THEN NextDefinition([pr EXCEPT !.ens[d] =
                 [NoEns EXCEPT !.present = found, !.found = TRUE,
                               !.result = "true"]])
          ELSE [pr EXCEPT !.pc = "ensCreate",
                          !.ens[d] = [NoEns EXCEPT !.present = found,
                                                   !.result = "running"]]]
  /\ UNCHANGED <<now, rateLimitMap, cleanupCounter, resendConfigured, defs,
                 metaobjects, nreq, hist,
                 unsweptMap>>

EnsureCreate(p, answer) ==
  /\ procs[p].pc = "ensCreate"
  /\ LET d == Head(procs[p].todo)
         shop == procs[p].shop
         result == ensureTypeResult(answer)
         called == [procs[p] EXCEPT !.calls = @ \cup {"defCreate"},
                                    !.ens[d].creates = @ + 1,
                                    !.ens[d].answer = answer,
                                    !.ens[d].result = result]
         pr == IF answer = "created" THEN called
               ELSE Fault(called, "defCreate")
     IN /\ answer \in DefCreateAnswers(shop, d)
        /\ defs' = IF answer = "created"
                   THEN [defs EXCEPT ![shop] = @ \cup {d}]
                   ELSE defs
        /\ procs' = [procs EXCEPT ![p] =
             IF result = "true" THEN NextDefinition(pr)
             ELSE Fail(pr, "defCreate")]
  /\ UNCHANGED <<now, rateLimitMap, cleanupCounter, resendConfigured,
                 metaobjects, nreq, hist,
                 unsweptMap>>

----------------------------------------------------------------------------
(* ensureProductMetafieldDefinitions: two ensureProductMetafieldDefinition *)
(* calls under Promise.all                                                 *)

MfDefs == {MfEnabled, MfHidePrice}

\* what ensureProductMetafieldDefinition returns for the answer to its
\* create call: only userErrors without a TAKEN code make it false
ensureMetafieldResult(answer) ==
  IF answer \in {"invalid", "throw"} THEN "false" ELSE "true"

MfFinished(stage) == stage \in {"true", "false"}

\* the loader returns when both calls have returned; the boolean that
\* ensureProductMetafieldDefinitions returns is not looked at
MfJoin(pr) ==
  IF \A d \in MfDefs : MfFinished(pr.mf[d])
  THEN Respond(pr, 200, "loaded", "")
  ELSE pr

\* Promise.all starts both calls: each runs up to its existence query
MfStart(p) ==
  /\ procs[p].pc = "mfDefs"
  /\ \A d \in MfDefs : procs[p].mf[d] = "idle"
  /\ procs' = [procs EXCEPT ![p].mf = [d \in MfDefs |-> "check"]]
  /\ UNCHANGED <<now, rateLimitMap, cleanupCounter, resendConfigured, defs,
                 metaobjects, nreq, hist,
                 unsweptMap>>

MfCheck(p, d, outcome) ==
  /\ procs[p].pc = "mfDefs"
  /\ procs[p].mf[d] = "check"
  /\ outcome \in {"answer", "throw"}
  /\ LET found == d \in defs[procs[p].shop]
         pr == [procs[p] EXCEPT !.calls = @ \cup {"defCheck"}]
     IN procs' = [procs EXCEPT ![p] =
          IF outcome = "throw"
          THEN MfJoin(Fault([pr EXCEPT !.mf[d] = "false",
                                       !.ens[d].result = "false"],
                            "defCheck"))
          ELSE IF EnsureSkipsCreate(found)
          THEN MfJoin([pr EXCEPT !.mf[d] = "true", !.ens[d] =
                 [NoEns EXCEPT !.present = found, !.found = TRUE,
                               !.result = "true"]])
          ELSE [pr EXCEPT !.mf[d] = "create",
                          !.ens[d] = [NoEns EXCEPT !.present = found,
                                                   !.result = "running"]]]
  /\ UNCHANGED <<now, rateLimitMap, cleanupCounter, resendConfigured, defs,
                 metaobjects, nreq, hist,
                 unsweptMap>>

MfCreate(p, d, answer) ==
  /\ procs[p].pc = "mfDefs"
  /\ procs[p].mf[d] = "create"
  /\ LET shop == procs[p].shop
         result == ensureMetafieldResult(answer)
         called == [procs[p] EXCEPT !.calls = @ \cup {"defCreate"},
                                    !.ens[d].creates = @ + 1,
                                    !.ens[d].answer = answer,
                                    !.ens[d].result = result,
                                    !.mf[d] = result]
         pr == IF answer = "created" THEN called
               ELSE Fault(called, "defCreate")
     IN /\ answer \in DefCreateAnswers(shop, d)
        /\ defs' = IF answer = "created"
                   THEN [defs EXCEPT ![shop] = @ \cup {d}]
                   ELSE defs
        /\ procs' = [procs EXCEPT ![p] = MfJoin(pr)]
  /\ UNCHANGED <<now, rateLimitMap, cleanupCounter, resendConfigured,
                 metaobjects, nreq, hist,
                 unsweptMap>>

----------------------------------------------------------------------------
(* Intake action: persist, read the settings, notify, respond *)

\* the fields of the metaobjectCreate input; the rate-limited route sends
\* requestDetails || "", the other one requestDetails as it came
SubmissionFields_notPending(f) ==
  [customer_name |-> f.customerName,
   customer_email |-> f.customerEmail,
   request_details |-> IF f.route = "proxy" THEN OrEmpty(f.requestDetails)
                       ELSE f.requestDetails,
   status |-> "contacted"]

SubmissionFields(f) ==
  [customer_name |-> f.customerName,
   customer_email |-> f.customerEmail,
   request_details |-> IF f.route = "proxy" THEN OrEmpty(f.requestDetails)
                       ELSE f.requestDetails,
   status |-> "pending"]

\* `rfq-${Date.now()}-${random}`: a handle no record of the shop carries
\* yet, modelled by the least unused number (a handle that collides is
\* one of the cases in which the store answers userErrors)
SubmissionHandle(shop) ==
  <<"rfq", Len(RecordsOf(shop, RFQ_SUBMISSION_TYPE)) + 1>>

\* the id the store gives to a new record of a type
NewRecordId(shop, type) == Len(RecordsOf(shop, type)) + 1

\* createData?.data?.metaobjectCreate?.userErrors?.length > 0
persistRejects_never(answer) == FALSE

persistRejects(answer) == answer = "userErrors"

Persist(p, answer) ==
  /\ procs[p].pc = "persist"
  /\ LET pr == [procs[p] EXCEPT !.calls = @ \cup {"recordCreate"}]
         shop == pr.shop
         record == [id |-> NewRecordId(shop, RFQ_SUBMISSION_TYPE),
                    handle |-> SubmissionHandle(shop),
                    fields |-> SubmissionFields(pr.form)]
     IN /\ answer \in RecordCreateAnswers(shop, RFQ_SUBMISSION_TYPE,
                                          SubmissionHandle(shop))
        /\ metaobjects' =
             IF answer = "ok"
             THEN [metaobjects EXCEPT ![shop][RFQ_SUBMISSION_TYPE] =
                     Append(@, record)]
             ELSE metaobjects
        /\ procs' = [procs EXCEPT ![p] =
             CASE answer = "throw" ->
                    Fail(Fault(pr, "recordCreate"), "recordCreate")
               [] persistRejects(answer) ->
                    Respond(Fault([pr EXCEPT !.createData = answer],
                                  "recordCreate"),
                            500, "error", "Failed to save submission")
               [] answer = "errors" ->
                    [Fault(pr, "recordCreate") EXCEPT !.pc = "settings",
                                                      !.createData = answer]
               [] OTHER -> [pr EXCEPT !.pc = "settings",
                                      !.createData = answer,
                                      !.created = IF answer = "ok"
                                                  THEN @ \cup {record.id}
                                                  ELSE @]]
  /\ UNCHANGED <<now, rateLimitMap, cleanupCounter, resendConfigured, defs,
                 nreq, hist,
                 unsweptMap>>

\* the type the intake action reads the settings record from
IntakeSettingsType(f) ==
  IF f.route = "proxy" THEN RFQ_SETTINGS_TYPE ELSE AppSettingsType

\* fields.find(f => f.key === "notification_email")?.value
NotificationEmailOf_always(node) == MerchantEmail

NotificationEmailOf(node) ==
  IF node = <<>> THEN Null ELSE node[1].fields.notification_email

\* fields.find(f => f.key === "success_message")?.value || default
SuccessMessageOf(node) ==
  IF node = <<>> \/ Falsy(node[1].fields.success_message)
  THEN DefaultSuccessMessage
  ELSE node[1].fields.success_message

SettingsQuery(p, outcome) ==
  /\ procs[p].pc = "settings"
  /\ outcome \in {"answer", "throw"}
  /\ LET node == FirstNode(procs[p].shop, IntakeSettingsType(procs[p].form))
         pr == [procs[p] EXCEPT !.calls = @ \cup {"settingsQuery"}]
         read == [pr EXCEPT !.notificationEmail = NotificationEmailOf(node),
                            !.successMessage = SuccessMessageOf(node)]
     IN procs' = [procs EXCEPT ![p] =
          IF outcome = "throw"
          THEN Fail(Fault(pr, "settingsQuery"), "settingsQuery")
          ELSE IF Falsy(read.notificationEmail)
          THEN Respond(read, 200, "success", read.successMessage)
          \* createData.data.metaobjectCreate.metaobject.id of an answer
          \* that carries no data
          ELSE IF read.createData = "errors" THEN Fail(read, "notify")
          ELSE [read EXCEPT !.pc = "notify"]]
  /\ UNCHANGED <<now, rateLimitMap, cleanupCounter, resendConfigured, defs,
                 metaobjects, nreq, hist,
                 unsweptMap>>

\* sendQuoteNotification reaches resend.emails.send
SendsEmail(configured, details) == configured /\ details # Null

\* sendQuoteNotification reaches the console.log of the composed message
LogsMessage(configured, details) == ~configured /\ details # Null

\* what sendQuoteNotification returns: requestDetails.replace of null
\* throws inside its try block, as a failing send does
sendQuoteNotification_rethrows(configured, details, answer) ==
  IF details = Null THEN "throw"
  ELSE IF ~configured THEN "true"
  ELSE IF answer = "sent" THEN "true"
  ELSE IF answer = "error" THEN "false"
  ELSE "throw"

sendQuoteNotification(configured, details, answer) ==
  IF details = Null THEN "false"
  ELSE IF ~configured THEN "true"
  ELSE IF answer = "sent" THEN "true"
  ELSE "false"

SendAnswers(configured, details) ==
  IF SendsEmail(configured, details)
  THEN {"sent", "error", "throw"}
  ELSE {"none"}

Notify(p, answer) ==
  /\ procs[p].pc = "notify"
  /\ LET details == procs[p].form.requestDetails
         result == sendQuoteNotification(resendConfigured, details, answer)
         pr == [procs[p] EXCEPT
                  !.calls = IF SendsEmail(resendConfigured, details)
                            THEN @ \cup {"emailSend"} ELSE @,
                  !.faults = IF answer \in {"error", "throw"}
                             THEN @ \cup {"emailSend"} ELSE @,
                  !.notified = IF answer = "none" THEN "skipped" ELSE answer,
                  !.logged = LogsMessage(resendConfigured, details),
                  !.sendResult = result]
     IN /\ answer \in SendAnswers(resendConfigured, details)
        /\ procs' = [procs EXCEPT ![p] =
             IF result = "throw" THEN Fail(pr, "notify")
             ELSE Respond(pr, 200, "success", pr.successMessage)]
  /\ UNCHANGED <<now, rateLimitMap, cleanupCounter, resendConfigured, defs,
                 metaobjects, nreq, hist,
                 unsweptMap>>

----------------------------------------------------------------------------
(* Settings action *)

SettingsFields(sf) ==
  [notification_email |-> sf.notificationEmail,
   phone_number |-> sf.phoneNumber,
   form_title |-> sf.formTitle,
   form_description |-> sf.formDescription,
   success_message |-> sf.successMessage]

SettingsHandle == <<"default-settings">>

SettingsSaveStart(p, shop, sf) ==
  /\ Free(p)
  /\ nreq' = nreq + 1
  /\ procs' = [procs EXCEPT ![p] =
       [IdleProc EXCEPT !.kind = "settingsSave", !.pc = "auth",
                        !.id = nreq + 1, !.shop = shop, !.sform = sf]]
  /\ UNCHANGED <<now, rateLimitMap, cleanupCounter, resendConfigured, defs,
                 metaobjects, hist,
                 unsweptMap>>

\* the store updates the record the id names, if there is one
HasRecordId(shop, type, id) ==
  \E i \in 1..Len(RecordsOf(shop, type)) : RecordsOf(shop, type)[i].id = id

SettingsUpdate(p, answer) ==
  /\ procs[p].pc = "update"
  /\ LET pr == [procs[p] EXCEPT !.calls = @ \cup {"recordUpdate"}]
         shop == pr.shop
         id == pr.sform.settingsId
     IN /\ answer \in IF HasRecordId(shop, RFQ_SETTINGS_TYPE, id)
                      THEN {"ok", "userErrors", "throw"}
                      ELSE {"userErrors", "throw"}
        /\ metaobjects' =
             IF answer = "ok"
             THEN [metaobjects EXCEPT ![shop][RFQ_SETTINGS_TYPE] =
                     [i \in 1..Len(@) |->
                        IF @[i].id = id
                        THEN [@[i] EXCEPT !.fields = SettingsFields(pr.sform)]
                        ELSE @[i]]]
             ELSE metaobjects
        /\ procs' = [procs EXCEPT ![p] =
             CASE answer = "throw" ->
                    Fail(Fault(pr, "recordUpdate"), "recordUpdate")
               [] answer = "userErrors" ->
                    Respond(Fault(pr, "recordUpdate"), 400, "failed", "")
               [] OTHER -> Respond(pr, 200, "success", "")]
  /\ UNCHANGED <<now, rateLimitMap, cleanupCounter, resendConfigured, defs,
                 nreq, hist,
                 unsweptMap>>

SettingsCreate(p, answer) ==
  /\ procs[p].pc = "createSettings"
  /\ LET pr == [procs[p] EXCEPT !.calls = @ \cup {"recordCreate"}]
         shop == pr.shop
         record == [id |-> NewRecordId(shop, RFQ_SETTINGS_TYPE),
                    handle |-> SettingsHandle,
                    fields |-> SettingsFields(pr.sform)]
     IN /\ answer \in RecordCreateAnswers(shop, RFQ_SETTINGS_TYPE,
                                          SettingsHandle) \ {"errors"}
        /\ metaobjects' =
             IF answer = "ok"
             THEN [metaobjects EXCEPT ![shop][RFQ_SETTINGS_TYPE] =
                     Append(@, record)]
             ELSE metaobjects
        /\ procs' = [procs EXCEPT ![p] =
             CASE answer = "throw" ->
                    Fail(Fault(pr, "recordCreate"), "recordCreate")
               [] answer = "userErrors" ->
                    Respond(Fault(pr, "recordCreate"), 400, "failed", "")
               [] OTHER -> Respond(pr, 200, "success", "")]
  /\ UNCHANGED <<now, rateLimitMap, cleanupCounter, resendConfigured, defs,
                 nreq, hist,
                 unsweptMap>>

----------------------------------------------------------------------------
(* Settings loader: GET on the storefront routes *)

\* getValue(key, defaultValue): field?.value || defaultValue
getValue_noDefault(node, key, defaultValue) ==
  IF node = <<>> THEN "" ELSE node[1].fields[key]

getValue(node, key, defaultValue) ==
  IF node = <<>> \/ Falsy(node[1].fields[key])
  THEN defaultValue
  ELSE node[1].fields[key]

\* the body the loader answers with for the settings record it found
SettingsBody(node) ==
  [phoneNumber |-> getValue(node, "phone_number", DefaultPhoneNumber),
   formTitle |-> getValue(node, "form_title", DefaultFormTitle),
   formDescription |->
     getValue(node, "form_description", DefaultFormDescription),
   successMessage |->
     getValue(node, "success_message", DefaultSuccessMessage)]

\* shop is url.searchParams.get("shop")
SettingsReadStart(p, route, shop) ==
  /\ Free(p)
  /\ nreq' = nreq + 1
  /\ LET pr == [IdleProc EXCEPT
                  !.kind = "settingsRead", !.id = nreq + 1, !.shop = shop,
                  !.form = [NoForm EXCEPT !.route = route, !.method = "GET",
                                          !.shop = shop]]
     IN procs' = [procs EXCEPT ![p] =
          IF Falsy(shop)
          THEN Respond(pr, 400, "error", "Shop parameter required")
          ELSE [pr EXCEPT !.pc = "auth"]]
  /\ UNCHANGED <<now, rateLimitMap, cleanupCounter, resendConfigured, defs,
                 metaobjects, hist,
                 unsweptMap>>

SettingsRead(p, outcome) ==
  /\ procs[p].pc = "readSettings"
  /\ outcome \in {"answer", "throw"}
  /\ LET node == FirstNode(procs[p].shop, IntakeSettingsType(procs[p].form))
         pr == [procs[p] EXCEPT !.calls = @ \cup {"settingsQuery"}]
     IN procs' = [procs EXCEPT ![p] =
          IF outcome = "throw"
          THEN Fail(Fault(pr, "settingsQuery"), "settingsQuery")
          ELSE Respond([pr EXCEPT !.settings = SettingsBody(node)],
                       200, "settings", "")]
  /\ UNCHANGED <<now, rateLimitMap, cleanupCounter, resendConfigured, defs,
                 metaobjects, nreq, hist,
                 unsweptMap>>

----------------------------------------------------------------------------
(* Submissions page action: updateStatus and delete *)

----------------------------------------------------------------------------
(* Dashboard loader *)

DashboardLoadStart(p, shop) ==
  /\ Free(p)
  /\ nreq' = nreq + 1
  /\ procs' = [procs EXCEPT ![p] =
       [IdleProc EXCEPT !.kind = "dashboardLoad", !.pc = "auth",
                        !.id = nreq + 1, !.shop = shop]]
  /\ UNCHANGED <<now, rateLimitMap, cleanupCounter, resendConfigured, defs,
                 metaobjects, hist, unsweptMap>>

\* the type GET_SETTINGS_QUERY of the dashboard names
DashboardSettingsType == AppSettingsType

\* the settings query of the loader
DashboardSettings(p, outcome) ==
  /\ procs[p].pc = "dashSettings"
  /\ outcome \in {"answer", "throw"}
  /\ LET node == FirstNode(procs[p].shop, DashboardSettingsType)
         pr == [procs[p] EXCEPT !.calls = @ \cup {"settingsQuery"}]
     IN procs' = [procs EXCEPT ![p] =
          IF outcome = "throw"
          THEN Fail(Fault(pr, "settingsQuery"), "settingsQuery")
          ELSE [pr EXCEPT !.notificationEmail = NotificationEmailOf(node),
                          !.pc = "countAll"]]
  /\ UNCHANGED <<now, rateLimitMap, cleanupCounter, resendConfigured, defs,
                 metaobjects, nreq, hist, unsweptMap>>

\* countMetaobjects(type, query): the nodes of the pages, here of one page
countMetaobjects(shop, type, status) ==
  Cardinality({i \in 1..Len(RecordsOf(shop, type)) :
                 status = "" \/ RecordsOf(shop, type)[i].fields.status = status})

\* the two counts, one after the other, and the response
DashboardCount(p, outcome) ==
  /\ procs[p].pc \in {"countAll", "countPending"}
  /\ outcome \in {"answer", "throw"}
  /\ LET pr == [procs[p] EXCEPT !.calls = @ \cup {"count"}]
         shop == pr.shop
     IN procs' = [procs EXCEPT ![p] =
          IF outcome = "throw" THEN Fail(Fault(pr, "count"), "count")
          ELSE IF pr.pc = "countAll"
          THEN [pr EXCEPT !.pc = "countPending",
                          !.submissionsCount =
                            countMetaobjects(shop, RFQ_SUBMISSION_TYPE, "")]
          ELSE Respond([pr EXCEPT
                          !.pendingCount =
                            countMetaobjects(shop, RFQ_SUBMISSION_TYPE,
                                             "pending"),
                          !.hasSettings = ~Falsy(pr.notificationEmail)],
                       200, "dashboard", "")]
  /\ UNCHANGED <<now, rateLimitMap, cleanupCounter, resendConfigured, defs,
                 metaobjects, nreq, hist, unsweptMap>>

SubmissionActionStart(p, shop, uf) ==
  /\ Free(p)
  /\ nreq' = nreq + 1
  /\ procs' = [procs EXCEPT ![p] =
       [IdleProc EXCEPT !.kind = "submissionAction", !.pc = "auth",
                        !.id = nreq + 1, !.shop = shop, !.uform = uf]]
  /\ UNCHANGED <<now, rateLimitMap, cleanupCounter, resendConfigured, defs,
                 metaobjects, hist,
                 unsweptMap>>

\* fields: [{ key: "status", value: status }]
StatusSent_pendingOnly(uf) == "pending"

StatusSent(uf) == uf.status

\* answers the store can give to an update of the status field: it accepts
\* the choices of the definition on a record that exists
StatusUpdateAnswers(shop, id, status) ==
  IF HasRecordId(shop, RFQ_SUBMISSION_TYPE, id) /\ status \in StatusChoices
  THEN {"ok", "userErrors", "throw"}
  ELSE {"userErrors", "throw"}

\* the records of the type that are left when the one the id names is gone
WithoutRecord(shop, type, id) ==
  SelectSeq(RecordsOf(shop, type), LAMBDA r : r.id # id)

\* the action awaits the mutation and does not look at its answer
SubmissionAction(p, answer) ==
  /\ procs[p].pc = "submit"
  /\ LET uf == procs[p].uform
         shop == procs[p].shop
         called == [procs[p] EXCEPT !.calls = @ \cup
                      {IF uf.action = "delete" THEN "recordDelete"
                       ELSE "recordUpdate"}]
         pr == IF answer = "ok" THEN called
               ELSE Fault(called, IF uf.action = "delete" THEN "recordDelete"
                                  ELSE "recordUpdate")
     IN /\ uf.action \in {"updateStatus", "delete"}
        /\ answer \in IF uf.action = "updateStatus"
                      THEN StatusUpdateAnswers(shop, uf.id, StatusSent(uf))
                      ELSE IF HasRecordId(shop, RFQ_SUBMISSION_TYPE, uf.id)
                      THEN {"ok", "userErrors", "throw"}
                      ELSE {"userErrors", "throw"}
        /\ metaobjects' =
             IF answer # "ok" THEN metaobjects
             ELSE IF uf.action = "delete"
             THEN [metaobjects EXCEPT ![shop][RFQ_SUBMISSION_TYPE] =
                     WithoutRecord(shop, RFQ_SUBMISSION_TYPE, uf.id)]
             ELSE [metaobjects EXCEPT ![shop][RFQ_SUBMISSION_TYPE] =
                     [i \in 1..Len(@) |->
                        IF @[i].id = uf.id
                        THEN [@[i] EXCEPT !.fields.status = StatusSent(uf)]
                        ELSE @[i]]]
        /\ procs' = [procs EXCEPT ![p] =
             IF answer = "throw" THEN Fail(pr, uf.action)
             ELSE Respond(pr, 200, "success", "")]
  /\ UNCHANGED <<now, rateLimitMap, cleanupCounter, resendConfigured, defs,
                 nreq, hist,
                 unsweptMap>>

\* a form that names neither action: no mutation, { success: true }
SubmissionNoAction(p) ==
  /\ procs[p].pc = "submit"
  /\ procs[p].uform.action \notin {"updateStatus", "delete"}
  /\ procs' = [procs EXCEPT ![p] = Respond(procs[p], 200, "success", "")]
  /\ UNCHANGED <<now, rateLimitMap, cleanupCounter, resendConfigured, defs,
                 metaobjects, nreq, hist,
                 unsweptMap>>

----------------------------------------------------------------------------
(* App loader *)

AppLoadStart(p, shop) ==
  /\ Free(p)
  /\ nreq' = nreq + 1
  /\ procs' = [procs EXCEPT ![p] =
       [IdleProc EXCEPT !.kind = "appLoad", !.pc = "auth",
                        !.id = nreq + 1, !.shop = shop]]
  /\ UNCHANGED <<now, rateLimitMap, cleanupCounter, resendConfigured, defs,
                 metaobjects, hist,
                 unsweptMap>>

----------------------------------------------------------------------------
(* The clock *)

ClockSteps == {1, RATE_LIMIT_WINDOW_MS}

Tick(d) ==
  /\ d \in ClockSteps
  /\ d = 1 => now % RATE_LIMIT_WINDOW_MS < MaxSkew
  /\ d = RATE_LIMIT_WINDOW_MS =>
       now + d <= MaxWindows * RATE_LIMIT_WINDOW_MS + MaxSkew
  /\ now' = now + d
  /\ UNCHANGED <<rateLimitMap, cleanupCounter, resendConfigured, defs,
                 metaobjects, procs, nreq, hist,
                 unsweptMap>>

----------------------------------------------------------------------------
(* Inputs of the specifications *)

BaseForm ==
  [route |-> "proxy", method |-> "POST", shop |-> "shop1",
   customerName |-> "Jane Doe", customerEmail |-> EmailA,
   requestDetails |-> "Need pricing for 500 units"]

\* the requests of Spec: the valid request and its one-field variants
Forms ==
  {BaseForm,
   [BaseForm EXCEPT !.route = "api.proxy"],
   [BaseForm EXCEPT !.method = "OPTIONS"],
   [BaseForm EXCEPT !.requestDetails = Null],
   [BaseForm EXCEPT !.customerEmail = EmailAUpper],
   [BaseForm EXCEPT !.shop = Null],
   [BaseForm EXCEPT !.customerName = ""],
   [BaseForm EXCEPT !.customerEmail = EmailNoDot],
   [BaseForm EXCEPT !.customerEmail = EmailTwoAts, !.route = "api.proxy"]}

\* the requests of SpecRate
RateForms ==
  {BaseForm,
   [BaseForm EXCEPT !.customerEmail = EmailB],
   [BaseForm EXCEPT !.customerEmail = EmailNoDot]}

\* the requests of SpecValidate: every combination of the fields the
\* required-field check reads, and every customerEmail string up to
\* MaxEmailLen characters
Alphabet == {"a", "A", "@", ".", " "}

AllEmails == UNION {[1..n -> Alphabet] : n \in 0..MaxEmailLen}

FieldForms ==
  [route : {"proxy", "api.proxy"}, method : {"POST", "OPTIONS"},
   shop : {Null, "", "shop1"}, customerName : {Null, "", "Jane Doe"},
   customerEmail : {NullEmail, <<>>, EmailA, EmailNoDot},
   requestDetails : {Null, "", "Need pricing for 500 units"}]

EmailForms ==
  {[BaseForm EXCEPT !.route = r, !.customerEmail = e] :
     r \in {"proxy", "api.proxy"}, e \in AllEmails}

ValidateForms == FieldForms \cup EmailForms

\* the settings forms the merchant submits: the page carries the id of the
\* settings record its loader found, or none
SettingsIds(shop) ==
  {0} \cup {RecordsOf(shop, RFQ_SETTINGS_TYPE)[i].id :
              i \in 1..Len(RecordsOf(shop, RFQ_SETTINGS_TYPE))}

SettingsForms(shop) ==
  {[NoSettingsForm EXCEPT !.settingsId = id, !.notificationEmail = ne,
                          !.successMessage = sm] :
     id \in SettingsIds(shop), ne \in {"", MerchantEmail},
     sm \in {"", "Thanks!"}}

----------------------------------------------------------------------------
(* Specifications *)

Init ==
  /\ now = 0
  /\ rateLimitMap = <<>>
  /\ cleanupCounter = 0
  /\ resendConfigured \in BOOLEAN
  /\ defs = [s \in Shops |-> {}]
  /\ metaobjects = [s \in Shops |-> [t \in TypeNames |-> <<>>]]
  /\ procs = [p \in Procs |-> IdleProc]
  /\ nreq = 0
  /\ hist = <<>>
  /\ unsweptMap = <<>>

\* Spec: up to MaxRequests handler invocations, two of them at a time, every
\* answer of the remote side
StartIntake(p) ==
  /\ nreq < MaxRequests
  /\ \E f \in Forms : IntakeStart(p, f)

StartAppLoad(p) ==
  /\ nreq < MaxRequests
  /\ AppLoadStart(p, "shop1")

StartSettingsSave(p) ==
  /\ nreq < MaxRequests
  /\ \E sf \in SettingsForms("shop1") : SettingsSaveStart(p, "shop1", sf)

DoAuth(p) == \E o \in {"ok", "throw", "noShop"} : Auth(p, o)

DoEnsureCheck(p) == \E o \in {"answer", "throw"} : EnsureCheck(p, o)

DoEnsureCreate(p) ==
  \E a \in {"created", "taken", "invalid", "errors", "throw"} :
    EnsureCreate(p, a)

DoMfCheck(p) ==
  \E d \in MfDefs : \E o \in {"answer", "throw"} : MfCheck(p, d, o)

DoMfCreate(p) ==
  \E d \in MfDefs :
    \E a \in {"created", "taken", "invalid", "errors", "throw"} :
      MfCreate(p, d, a)

DoPersist(p) ==
  \E a \in {"ok", "userErrors", "errors", "throw"} : Persist(p, a)

DoSettingsQuery(p) == \E o \in {"answer", "throw"} : SettingsQuery(p, o)

DoNotify(p) == \E a \in {"sent", "error", "throw", "none"} : Notify(p, a)

DoSettingsUpdate(p) ==
  \E a \in {"ok", "userErrors", "throw"} : SettingsUpdate(p, a)

DoSettingsCreate(p) ==
  \E a \in {"ok", "userErrors", "throw"} : SettingsCreate(p, a)

Next ==
  \E p \in Procs :
    \/ StartIntake(p)
    \/ StartSettingsSave(p)
    \/ DoAuth(p)
    \/ DoEnsureCheck(p)
    \/ DoEnsureCreate(p)
    \/ DoPersist(p)
    \/ DoSettingsQuery(p)
    \/ DoNotify(p)
    \/ DoSettingsUpdate(p)
    \/ DoSettingsCreate(p)

Spec == Init /\ [][Next]_vars

\* SpecProv: the handlers that provision definitions, two at a time, every
\* answer of the remote side
ProvStartIntake(p) ==
  /\ nreq < MaxProvRequests
  /\ IntakeStart(p, BaseForm)

ProvStartAppLoad(p) ==
  /\ nreq < MaxProvRequests
  /\ AppLoadStart(p, "shop1")

ProvStartSettingsSave(p) ==
  /\ nreq < MaxProvRequests
  /\ SettingsSaveStart(p, "shop1", NoSettingsForm)

NextProv ==
  \E p \in Procs :
    \/ ProvStartIntake(p)
    \/ ProvStartAppLoad(p)
    \/ ProvStartSettingsSave(p)
    \/ DoAuth(p)
    \/ DoEnsureCheck(p)
    \/ DoEnsureCreate(p)
    \/ MfStart(p)
    \/ DoMfCheck(p)
    \/ DoMfCreate(p)
    \/ DoPersist(p)
    \/ DoSettingsQuery(p)
    \/ DoSettingsCreate(p)

SpecProv == Init /\ [][NextProv]_vars

\* SpecSettings: the merchant's settings saves, the storefront's settings
\* reads and intake requests on both routes, two at a time, every answer of
\* the remote side
SetStartSave(p) ==
  /\ nreq < MaxSettingsRequests
  /\ \E sf \in SettingsForms("shop1") : SettingsSaveStart(p, "shop1", sf)

SetStartRead(p) ==
  /\ nreq < MaxSettingsRequests
  /\ \E r \in {"proxy", "api.proxy"} : \E shop \in {Null, "shop1"} :
       SettingsReadStart(p, r, shop)

SetStartIntake(p) ==
  /\ nreq < MaxSettingsRequests
  /\ \E r \in {"proxy", "api.proxy"} :
       IntakeStart(p, [BaseForm EXCEPT !.route = r])

DoSettingsRead(p) == \E o \in {"answer", "throw"} : SettingsRead(p, o)

NextSettings ==
  \E p \in Procs :
    \/ SetStartSave(p)
    \/ SetStartRead(p)
    \/ SetStartIntake(p)
    \/ DoAuth(p)
    \/ DoEnsureCheck(p)
    \/ DoEnsureCreate(p)
    \/ DoPersist(p)
    \/ DoSettingsQuery(p)
    \/ DoNotify(p)
    \/ DoSettingsUpdate(p)
    \/ DoSettingsCreate(p)
    \/ DoSettingsRead(p)

SpecSettings == Init /\ [][NextSettings]_vars

\* SpecRate: intake requests one after the other on the rate-limited route,
\* the clock advancing between them, the remote side answering every call
\* with success. No settings record is ever saved here, so no notification
\* is due and the email sender is left unconfigured.
InitRate ==
  /\ Init
  /\ ~resendConfigured

RateStart ==
  /\ \A p \in Procs : Free(p)
  /\ nreq < MaxRateRequests
  /\ \E f \in RateForms :
       /\ f.customerEmail = EmailB => nreq < MaxOtherRequests
       /\ ~ReachesLimiter(f) => nreq - cleanupCounter < MaxInvalidRequests
       /\ IntakeStart(1, f)

RateAuth == Auth(1, "ok")

RateEnsureCheck == EnsureCheck(1, "answer")

RateEnsureCreate == EnsureCreate(1, "created")

RatePersist == Persist(1, "ok")

RateSettingsQuery == SettingsQuery(1, "answer")

RateTick ==
  /\ \A p \in Procs : Free(p)
  /\ \E d \in ClockSteps : Tick(d)

NextRate ==
  \/ RateStart
  \/ RateAuth
  \/ RateEnsureCheck
  \/ RateEnsureCreate
  \/ RatePersist
  \/ RateSettingsQuery
  \/ RateTick

SpecRate == InitRate /\ [][NextRate]_vars

\* SpecRace: intake requests for one email on the rate-limited route, two of
\* them in flight at a time. A handler runs from one await to the next
\* without interruption, and checkRateLimit contains no await: the check and
\* the increment are in the one step IntakeStart. The two handlers may both
\* find the submission type absent, so the store answers the second create
\* with the conflict.
RaceStart(p) ==
  /\ nreq < MaxRaceRequests
  /\ \A q \in Procs : ~Free(q) => nreq - procs[q].id < MaxRaceLag
  /\ IntakeStart(p, BaseForm)

RaceEnsureCreate(p) == \E a \in {"created", "taken"} : EnsureCreate(p, a)

NextRace ==
  \E p \in Procs :
    \/ RaceStart(p)
    \/ Auth(p, "ok")
    \/ EnsureCheck(p, "answer")
    \/ RaceEnsureCreate(p)
    \/ Persist(p, "ok")
    \/ SettingsQuery(p, "answer")

SpecRace == InitRate /\ [][NextRace]_vars

\* SpecStatus: MaxSubmissions intake requests, the remote side answering with
\* success, and when they are through the merchant's actions on the
\* submissions page, two at a time, every answer of the remote side. The
\* page names a record of the list or one that is gone, and the merchant
\* picks any status (the form is free to carry one that is no choice).
UpdateForms ==
  {[action |-> "updateStatus", id |-> i, status |-> st] :
     i \in 1..(MaxSubmissions + 1), st \in StatusChoices \cup {"archived"}}
  \cup {[action |-> "delete", id |-> i, status |-> ""] :
          i \in 1..(MaxSubmissions + 1)}
  \cup {[action |-> "", id |-> 1, status |-> ""]}

StatusStartIntake(p) ==
  /\ nreq < MaxSubmissions
  /\ IntakeStart(p, BaseForm)

StatusStartAction(p) ==
  /\ nreq >= MaxSubmissions
  /\ nreq < MaxSubmissions + MaxStatusActions
  /\ \A q \in Procs : procs[q].kind = "intake" => Free(q)
  /\ \E uf \in UpdateForms : SubmissionActionStart(p, "shop1", uf)

StatusAuth(p) == \E o \in {"ok", "throw"} : Auth(p, o)

DoSubmissionAction(p) ==
  \E a \in {"ok", "userErrors", "throw"} : SubmissionAction(p, a)

NextStatus ==
  \E p \in Procs :
    \/ StatusStartIntake(p)
    \/ StatusStartAction(p)
    \/ StatusAuth(p)
    \/ EnsureCheck(p, "answer")
    \/ RaceEnsureCreate(p)
    \/ Persist(p, "ok")
    \/ SettingsQuery(p, "answer")
    \/ DoSubmissionAction(p)
    \/ SubmissionNoAction(p)

SpecStatus == InitRate /\ [][NextStatus]_vars

\* SpecOptions: requests to the intake endpoint on both routes, two at a
\* time, the remote side answering with success: the preflight probe with
\* present, missing and malformed fields, among valid submissions
OptionsForms ==
  {[BaseForm EXCEPT !.method = "OPTIONS", !.route = r, !.shop = sh,
                    !.customerName = cn, !.customerEmail = ce] :
     r \in {"proxy", "api.proxy"}, sh \in {Null, "shop1"},
     cn \in {Null, "Jane Doe"}, ce \in {NullEmail, EmailA, EmailNoDot}}

OptionsStartProbe(p) ==
  /\ nreq < MaxOptionsRequests
  /\ \E f \in OptionsForms : IntakeStart(p, f)

OptionsStartIntake(p) ==
  /\ nreq < MaxOptionsRequests
  /\ \E r \in {"proxy", "api.proxy"} :
       IntakeStart(p, [BaseForm EXCEPT !.route = r])

NextOptions ==
  \E p \in Procs :
    \/ OptionsStartProbe(p)
    \/ OptionsStartIntake(p)
    \/ Auth(p, "ok")
    \/ EnsureCheck(p, "answer")
    \/ RaceEnsureCreate(p)
    \/ Persist(p, "ok")
    \/ SettingsQuery(p, "answer")

SpecOptions == InitRate /\ [][NextOptions]_vars

\* SpecCase: intake requests one after the other on the rate-limited route
\* within one window, the email spelled in lower or in upper case (the
\* first MaxUpperRequests requests and those after the fiftieth choose), the
\* remote side answering every call with success
CaseForms == {BaseForm, [BaseForm EXCEPT !.customerEmail = EmailAUpper]}

CaseStart ==
  /\ \A p \in Procs : Free(p)
  /\ nreq < MaxCaseRequests
  /\ \E f \in CaseForms :
       /\ f.customerEmail = EmailAUpper =>
            nreq < MaxUpperRequests \/ nreq >= RATE_LIMIT_MAX
       /\ IntakeStart(1, f)

NextCase ==
  \/ CaseStart
  \/ RateAuth
  \/ RateEnsureCheck
  \/ RateEnsureCreate
  \/ RatePersist
  \/ RateSettingsQuery

SpecCase == InitRate /\ [][NextCase]_vars

\* SpecSweep: as SpecRate, long enough for the sweep of the hundredth
\* execution of the rate-limiting step. The clock runs up to one millisecond
\* past MaxSweepWindows windows; it advances during the first MaxSweepLead
\* executions and from MaxSweepLead executions before the sweep on. The
\* second email is named by the first requests and by those after the sweep.
SweepForms == RateForms \cup {[BaseForm EXCEPT !.customerName = ""]}

SweepStart ==
  /\ \A p \in Procs : Free(p)
  /\ nreq < MaxSweepRequests
  /\ \E f \in SweepForms :
       /\ f.customerEmail = EmailB =>
            nreq < MaxOtherRequests \/ cleanupCounter >= CleanupEvery
       /\ ~ReachesLimiter(f) => nreq - cleanupCounter < MaxInvalidRequests
       /\ IntakeStart(1, f)

SweepTick ==
  /\ \A p \in Procs : Free(p)
  /\ \/ cleanupCounter < MaxSweepLead
     \/ cleanupCounter >= CleanupEvery - MaxSweepLead
  /\ \E d \in ClockSteps :
       /\ d = 1 => now % RATE_LIMIT_WINDOW_MS = 0
       /\ now + d <= MaxSweepWindows * RATE_LIMIT_WINDOW_MS + 1
       /\ Tick(d)

NextSweep ==
  \/ SweepStart
  \/ RateAuth
  \/ RateEnsureCheck
  \/ RateEnsureCreate
  \/ RatePersist
  \/ RateSettingsQuery
  \/ SweepTick

SpecSweep == InitRate /\ [][NextSweep]_vars

\* SpecSlots: intake requests for one email one after the other on the
\* rate-limited route within one window. The first MaxFaultyRequests
\* requests may name the second shop, and their remote calls may fail; the
\* remote side answers the calls of the later ones with success.
Faulty == procs[1].id <= MaxFaultyRequests

SlotsStart ==
  /\ \A p \in Procs : Free(p)
  /\ nreq < MaxSlotsRequests
  /\ \E sh \in Shops :
       /\ sh # "shop1" => nreq < MaxFaultyRequests
       /\ IntakeStart(1, [BaseForm EXCEPT !.shop = sh])

SlotsAuth ==
  \E o \in {"ok", "throw"} : (o # "ok" => Faulty) /\ Auth(1, o)

SlotsEnsureCheck ==
  \E o \in {"answer", "throw"} :
    (o # "answer" => Faulty) /\ EnsureCheck(1, o)

SlotsEnsureCreate ==
  \E a \in {"created", "invalid", "throw"} :
    (a # "created" => Faulty) /\ EnsureCreate(1, a)

SlotsPersist ==
  \E a \in {"ok", "userErrors", "throw"} :
    (a # "ok" => Faulty) /\ Persist(1, a)

NextSlots ==
  \/ SlotsStart
  \/ SlotsAuth
  \/ SlotsEnsureCheck
  \/ SlotsEnsureCreate
  \/ SlotsPersist
  \/ RateSettingsQuery

SpecSlots == InitRate /\ [][NextSlots]_vars

\* SpecReaders: the merchant's settings saves, the dashboard loads and the
\* intake requests of both routes, two at a time, the remote side answering
\* the calls with success and the email sender in every way
ReadersStartSave(p) ==
  /\ nreq < MaxReaderRequests
  /\ \E sf \in SettingsForms("shop1") : SettingsSaveStart(p, "shop1", sf)

ReadersStartDashboard(p) ==
  /\ nreq < MaxReaderRequests
  /\ DashboardLoadStart(p, "shop1")

ReadersStartIntake(p) ==
  /\ nreq < MaxReaderRequests
  /\ \E r \in {"proxy", "api.proxy"} :
       IntakeStart(p, [BaseForm EXCEPT !.route = r])

DoDashboardSettings(p) ==
  \E o \in {"answer", "throw"} : DashboardSettings(p, o)

DoDashboardCount(p) == \E o \in {"answer", "throw"} : DashboardCount(p, o)

NextReaders ==
  \E p \in Procs :
    \/ ReadersStartSave(p)
    \/ ReadersStartDashboard(p)
    \/ ReadersStartIntake(p)
    \/ Auth(p, "ok")
    \/ EnsureCheck(p, "answer")
    \/ RaceEnsureCreate(p)
    \/ Persist(p, "ok")
    \/ SettingsQuery(p, "answer")
    \/ DoNotify(p)
    \/ SettingsUpdate(p, "ok")
    \/ SettingsCreate(p, "ok")
    \/ DoDashboardSettings(p)
    \/ DoDashboardCount(p)

SpecReaders == Init /\ [][NextReaders]_vars

\* SpecValidate: one intake request, its form drawn from ValidateForms,
\* every answer of the remote side
ValidateStart ==
  /\ nreq = 0
  /\ \E f \in ValidateForms : IntakeStart(1, f)

NextValidate ==
  \/ ValidateStart
  \/ DoAuth(1)
  \/ DoEnsureCheck(1)
  \/ DoEnsureCreate(1)
  \/ DoPersist(1)
  \/ DoSettingsQuery(1)

SpecValidate == Init /\ [][NextValidate]_vars

----------------------------------------------------------------------------
(* Properties *)

IntakeProcs == {p \in Procs : procs[p].kind = "intake"}

Limited(p) == procs[p].kind = "intake" /\ procs[p].form.route = "proxy"

Answered(p, status) == procs[p].pc = "done" /\ procs[p].resp.status = status

SuccessResponse(p) ==
  /\ Answered(p, 200)
  /\ procs[p].resp.body = "success"

SubmissionsOf(shop) == RecordsOf(shop, RFQ_SUBMISSION_TYPE)

AllSubmissions ==
  UNION {{SubmissionsOf(s)[i] : i \in 1..Len(SubmissionsOf(s))} : s \in Shops}

\* C1: of the requests for one email that reach the limiter within one hour
\* of the first, the first 50 are admitted (and answered 200 with success,
\* the remote calls succeeding) and the 51st is answered 429.
C1_FirstFiftyThen429 ==
  \A p \in Procs :
    Limited(p) =>
      /\ procs[p].nth \in 1..50 =>
           /\ procs[p].admitted
           /\ procs[p].gate = "pass"
           /\ procs[p].pc = "done" => SuccessResponse(p)
      /\ procs[p].nth = 51 => Answered(p, 429)

C1_Witness ==
  \E p \in Procs :
    /\ Limited(p)
    /\ procs[p].nth = 51
    /\ Answered(p, 429)
    /\ Len(SubmissionsOf("shop1")) >= 50

\* the step is the start of a request that reaches the limiter under key k
LimiterStep(k) ==
  /\ nreq' = nreq + 1
  /\ cleanupCounter' = cleanupCounter + 1
  /\ \E p \in Procs :
       /\ procs'[p] # procs[p]
       /\ Limited(p)'
       /\ toLowerCase(procs'[p].form.customerEmail) = k

\* C2: for an email whose record stands at the limit, a request at a time
\* past the record's resetTime is admitted and replaces the record by
\* count 1 and resetTime = its time + 1 hour; a request at a time not past
\* resetTime is answered 429 and leaves the record as it is.
C2_BlockedUntilWindowElapses ==
  [][\A k \in DOMAIN rateLimitMap :
       (rateLimitMap[k].count >= 50 /\ LimiterStep(k)) =>
          \E p \in Procs :
            /\ procs'[p] # procs[p]
            /\ IF now > rateLimitMap[k].resetTime
               THEN /\ procs'[p].admitted
                    /\ procs'[p].pc = "auth"
                    /\ rateLimitMap'[k] =
                         [count |-> 1, resetTime |-> now + 3600000]
               ELSE /\ procs'[p].pc = "done"
                    /\ procs'[p].resp.status = 429
                    /\ rateLimitMap' = rateLimitMap]_vars

\* a request was refused in the first hour, and a later one opened a fresh
\* window
C2_Witness ==
  \E p \in Procs :
    /\ Limited(p)
    /\ procs[p].admitted
    /\ LET k == toLowerCase(procs[p].form.customerEmail)
       IN /\ k \in DOMAIN hist
          /\ hist[k].seen >= 51
          /\ rateLimitMap[k].count = 1
          /\ rateLimitMap[k].resetTime > hist[k].first + 3600000

\* C3: a POST is answered 400 "Missing required fields" exactly when shop,
\* customerName or customerEmail is absent or empty, whatever requestDetails
\* is; such a request creates no record.
AbsentOrEmpty(v) == v \in {Null, ""}

C3_MissingRequiredFields ==
  \A p \in IntakeProcs :
    procs[p].form.method = "POST" =>
      LET f == procs[p].form
          rejected == /\ Answered(p, 400)
                      /\ procs[p].resp.text = "Missing required fields"
      IN /\ rejected <=>
              \/ AbsentOrEmpty(f.shop)
              \/ AbsentOrEmpty(f.customerName)
              \/ f.customerEmail \in {NullEmail, <<>>}
         /\ rejected =>
              /\ procs[p].created = {}
              /\ "recordCreate" \notin procs[p].calls
              /\ AllSubmissions = {}

C3_Witness ==
  \E p \in IntakeProcs :
    /\ procs[p].form.method = "POST"
    /\ Answered(p, 400)
    /\ procs[p].resp.text = "Missing required fields"
    /\ procs[p].form.customerName = ""
    /\ procs[p].form.requestDetails = "Need pricing for 500 units"

\* ^\S+@\S+\.\S+$ : no whitespace, an "@" after at least one character and,
\* at least one character later, a "." that is not the last character
MatchesShape(e) ==
  /\ \A k \in 1..Len(e) : e[k] \notin {" ", "\t"}
  /\ \E i \in 2..Len(e) : \E j \in (i + 2)..(Len(e) - 1) :
       e[i] = "@" /\ e[j] = "."

\* C4: a POST with shop and customerName present whose customerEmail does
\* not match ^\S+@\S+\.\S+$ is answered 400 and creates no record.
C4_MalformedEmailRejected ==
  \A p \in IntakeProcs :
    LET f == procs[p].form
    IN (/\ f.method = "POST"
        /\ ~AbsentOrEmpty(f.shop)
        /\ ~AbsentOrEmpty(f.customerName)
        /\ ~MatchesShape(f.customerEmail)) =>
          /\ Answered(p, 400)
          /\ procs[p].created = {}
          /\ procs[p].calls = {}
          /\ AllSubmissions = {}

C4_Witness ==
  \E p \in IntakeProcs :
    /\ procs[p].form.method = "POST"
    /\ Len(procs[p].form.customerEmail) >= 5
    /\ ~MatchesShape(procs[p].form.customerEmail)
    /\ Answered(p, 400)
    /\ procs[p].resp.text = "Invalid email format"

\* local@domain.tld: the shape above with a single "@"
WellFormedEmail(e) ==
  /\ MatchesShape(e)
  /\ Cardinality({i \in 1..Len(e) : e[i] = "@"}) = 1

ValidForm(f) ==
  /\ f.method = "POST"
  /\ ~AbsentOrEmpty(f.shop)
  /\ ~AbsentOrEmpty(f.customerName)
  /\ WellFormedEmail(f.customerEmail)

\* the records of the request's shop that the request created
CreatedRecords(p) ==
  {r \in AllSubmissions :
     /\ r.id \in procs[p].created
     /\ r \in {SubmissionsOf(procs[p].shop)[i] :
                 i \in 1..Len(SubmissionsOf(procs[p].shop))}}

\* C5: a valid request that is not rate limited and whose remote calls all
\* succeed is answered 200 {success: true, message} and has created exactly
\* one record, of status "pending"; no request creates more than one.
C5_ValidRequestCreatesOnePending ==
  \A p \in IntakeProcs :
    /\ Cardinality(procs[p].created) <= 1
    /\ (/\ procs[p].pc = "done"
        /\ ValidForm(procs[p].form)
        /\ procs[p].resp.status # 429
        /\ procs[p].faults = {}) =>
          /\ SuccessResponse(p)
          /\ procs[p].resp.text # ""
          /\ Cardinality(CreatedRecords(p)) = 1
          /\ \A r \in CreatedRecords(p) :
               /\ r.fields.status = "pending"
               /\ r.fields.customer_email = procs[p].form.customerEmail

C5_Witness ==
  \E p \in IntakeProcs :
    /\ ValidForm(procs[p].form)
    /\ procs[p].faults = {}
    /\ SuccessResponse(p)
    /\ Cardinality(CreatedRecords(p)) = 1

\* C6: when the notification send returns an error or throws, the request
\* is answered 200 {success: true, message} with the message read from the
\* settings, as it is when the send succeeds.
C6_NotificationFailureNotSurfaced ==
  \A p \in IntakeProcs :
    procs[p].notified \in {"sent", "error", "throw"} =>
      /\ SuccessResponse(p)
      /\ procs[p].resp.text = procs[p].successMessage
      /\ Cardinality(CreatedRecords(p)) = 1

C6_Witness ==
  \E p \in IntakeProcs :
    /\ procs[p].notified \in {"error", "throw"}
    /\ "emailSend" \in procs[p].faults
    /\ SuccessResponse(p)

\* C7: a provisioning routine whose create call is answered with an
\* already-exists conflict returns success.
C7_ConflictIsSuccess ==
  \A p \in Procs : \A d \in DefNames :
    procs[p].ens[d].answer = "taken" => procs[p].ens[d].result = "true"

\* both handlers looked the definition up while it was absent, and the store
\* answered each create call with "created" or with the conflict
RacedOn(p, q, d) ==
  /\ p # q
  /\ procs[p].shop = procs[q].shop
  /\ \A r \in {p, q} :
       /\ ~procs[r].ens[d].present
       /\ procs[r].ens[d].answer \in {"created", "taken"}

\* C8: two invocations of a provisioning routine that race on an absent
\* definition both return success, and neither caller fails at provisioning.
C8_RacingInvocationsSucceed ==
  \A p \in Procs : \A q \in Procs : \A d \in DefNames :
    RacedOn(p, q, d) =>
      \A r \in {p, q} :
        /\ procs[r].ens[d].result = "true"
        /\ procs[r].failedAt # "defCreate"

\* C9: a call that finds the definition issues no create call, returns
\* success and leaves the remote store as it is; a call that finds it absent
\* and returns success has issued exactly one create call; so of two calls in
\* sequence only the first one creates.
C9_State ==
  \A p \in Procs : \A d \in DefNames :
    LET e == procs[p].ens[d]
    IN /\ e.creates <= 1
       /\ e.present => (e.found /\ e.creates = 0 /\ e.result = "true")
       /\ (~e.present /\ e.result = "true") =>
            (e.creates = 1 /\ e.answer \in {"created", "taken", "errors"})

C9_FoundStep ==
  \E p \in Procs : \E d \in DefNames :
    /\ procs'[p].ens[d] # procs[p].ens[d]
    /\ procs'[p].ens[d].found

C9_SecondCallCreatesNothing ==
  /\ []C9_State
  /\ [][C9_FoundStep => (defs' = defs /\ metaobjects' = metaobjects)]_vars

C9_Witness ==
  \E p \in Procs : \E q \in Procs : \E d \in DefNames :
    /\ p # q
    /\ procs[q].ens[d].answer = "created"
    /\ procs[q].pc = "done"
    /\ procs[p].ens[d].present
    /\ procs[p].ens[d].creates = 0
    /\ procs[p].ens[d].result = "true"

\* C10: a request answered 400 or 429 has made no remote call, and a request
\* that has made one passed the required-field check, the format check and
\* the rate limiter.
C10_NoRemoteCallBeforeGate ==
  \A p \in Procs :
    Limited(p) =>
      /\ (procs[p].pc = "done" /\ procs[p].resp.status \in {400, 429}) =>
           procs[p].calls = {}
      /\ procs[p].calls # {} =>
           /\ ValidForm(procs[p].form)
           /\ procs[p].admitted

C10_Witness ==
  \E p \in Procs :
    /\ Limited(p)
    /\ Answered(p, 429)
    /\ procs[p].calls = {}
    /\ ValidForm(procs[p].form)

\* the provisioning of the submission type failed in this request
ProvisioningFailed(p) ==
  /\ procs[p].kind = "intake"
  /\ procs[p].ens[RFQ_SUBMISSION_TYPE].result = "throw"

C11_State ==
  \A p \in Procs :
    ProvisioningFailed(p) =>
      /\ Answered(p, 500)
      /\ procs[p].resp.body = "error"
      /\ procs[p].created = {}
      /\ procs[p].notified = "none"
      /\ procs[p].calls \cap {"recordCreate", "settingsQuery", "emailSend"} = {}

C11_FailingStep ==
  \E p \in Procs : ProvisioningFailed(p)' /\ ~ProvisioningFailed(p)

\* C11: an intake request whose provisioning of the submission type fails is
\* answered 500, creates no record and sends no notification, and the step
\* in which it fails leaves the rate-limit map, the sweep counter and the
\* remote store as they were.
C11_ProvisioningFailureIsContained ==
  /\ []C11_State
  /\ [][C11_FailingStep =>
          UNCHANGED <<rateLimitMap, cleanupCounter, defs, metaobjects>>]_vars

\* a request failed at provisioning and a later request for the same email
\* went through
C11_Witness ==
  \E p \in Procs : \E q \in Procs :
    /\ ProvisioningFailed(p)
    /\ Answered(p, 500)
    /\ procs[q].kind = "intake"
    /\ procs[q].id > procs[p].id
    /\ procs[q].form.customerEmail = procs[p].form.customerEmail
    /\ SuccessResponse(q)
    /\ Cardinality(CreatedRecords(q)) = 1

\* C12: an intake request whose record create is answered with userErrors
\* is answered 500 {error}, not {success: true}; it has read no settings and
\* sent no notification, and it has created no record.
C12_PersistErrorFailsClosed ==
  \A p \in IntakeProcs :
    procs[p].createData = "userErrors" =>
      /\ Answered(p, 500)
      /\ procs[p].resp.body = "error"
      /\ procs[p].resp.text = "Failed to save submission"
      /\ procs[p].calls \cap {"settingsQuery", "emailSend"} = {}
      /\ procs[p].notified = "none"
      /\ procs[p].created = {}

C12_Witness ==
  \E p \in IntakeProcs :
    /\ procs[p].createData = "userErrors"
    /\ "recordCreate" \in procs[p].calls
    /\ Answered(p, 500)
    /\ \E s \in Shops : FirstNode(s, RFQ_SETTINGS_TYPE) # <<>>

\* the settings records the intake request of p reads from
SettingsSeenBy(p) ==
  metaobjects[procs[p].shop][IF procs[p].form.route = "proxy"
                             THEN "rfq_settings"
                             ELSE "$app:rfq_settings"]

\* the notification email the store holds for the request of p
StoredNotificationEmail(p) ==
  IF Len(SettingsSeenBy(p)) = 0 THEN ""
  ELSE SettingsSeenBy(p)[1].fields.notification_email

\* the step in which the settings query of the request of p is answered
SettingsAnswered(p) ==
  /\ procs[p].kind = "intake"
  /\ procs[p].pc = "settings"
  /\ procs'[p].pc # "settings"
  /\ procs'[p].failedAt # "settingsQuery"

C13_State ==
  \A p \in IntakeProcs :
    procs[p].notified # "none" =>
      /\ procs[p].createData = "ok"
      /\ Cardinality(CreatedRecords(p)) = 1
      /\ "settingsQuery" \in procs[p].calls
      /\ procs[p].notificationEmail \notin {Null, ""}

\* C13: a request dispatches a notification at most once, only after a
\* record create that succeeded and only with a non-empty notification
\* email read from the settings record; when the settings query finds no
\* record or an empty notification email, the request is answered with
\* success and dispatches nothing.
C13_NotificationAtMostOnce ==
  /\ []C13_State
  /\ [][\A p \in Procs :
          /\ (/\ procs'[p].notified # procs[p].notified
              /\ procs'[p].id = procs[p].id) => procs[p].notified = "none"
          /\ (SettingsAnswered(p) /\ StoredNotificationEmail(p) \in {Null, ""})
               => /\ SuccessResponse(p)'
                  /\ procs'[p].notified = "none"
          /\ (SettingsAnswered(p) /\ procs'[p].pc = "notify")
               => /\ StoredNotificationEmail(p) \notin {Null, ""}
                  /\ procs[p].createData = "ok"]_vars

C13_Witness ==
  \E p \in IntakeProcs :
    /\ procs[p].notified = "sent"
    /\ procs[p].notificationEmail = MerchantEmail
    /\ Cardinality(CreatedRecords(p)) = 1
    /\ SuccessResponse(p)

\* the success message the merchant's last save left in the store
SavedSuccessMessage(shop) ==
  LET saved == metaobjects[shop]["rfq_settings"]
  IN IF Len(saved) = 0 \/ saved[1].fields.success_message \in {Null, ""}
     THEN "Thank you! We will get back to you shortly."
     ELSE saved[1].fields.success_message

\* the step in which the settings query of the settings read of p is answered
ReadAnswered(p) ==
  /\ procs[p].kind = "settingsRead"
  /\ procs[p].pc = "readSettings"
  /\ procs'[p].pc # "readSettings"
  /\ procs'[p].failedAt # "settingsQuery"

\* C14: an intake request whose settings query is answered takes as its
\* message the success message the settings action saved for the shop, or
\* the default when none or an empty one is saved, and answers with it when
\* it succeeds; a settings read whose query is answered returns the same.
C14_SavedMessageIsUsed ==
  [][\A p \in Procs :
       /\ SettingsAnswered(p) =>
            /\ procs'[p].successMessage = SavedSuccessMessage(procs[p].shop)
            /\ SuccessResponse(p)' =>
                 procs'[p].resp.text = SavedSuccessMessage(procs[p].shop)
       /\ ReadAnswered(p) =>
            procs'[p].settings.successMessage =
              SavedSuccessMessage(procs[p].shop)]_vars

\* the same for the requests of the rate-limited storefront route alone
C14_OnProxyRoute ==
  [][\A p \in Procs :
       procs[p].form.route = "proxy" =>
         /\ SettingsAnswered(p) =>
              /\ procs'[p].successMessage = SavedSuccessMessage(procs[p].shop)
              /\ SuccessResponse(p)' =>
                   procs'[p].resp.text = SavedSuccessMessage(procs[p].shop)
         /\ ReadAnswered(p) =>
              procs'[p].settings.successMessage =
                SavedSuccessMessage(procs[p].shop)]_vars

\* the settings reads: GET requests that carry a shop parameter
SettingsReads ==
  {p \in Procs : /\ procs[p].kind = "settingsRead"
                 /\ procs[p].form.shop \notin {Null, ""}}

HardcodedDefaults ==
  [phoneNumber |-> "+353 (0)1 8118920",
   formTitle |-> "Request a Quote",
   formDescription |-> "Or feel free to call us",
   successMessage |-> "Thank you! We will get back to you shortly."]

NoSettingsRecord(shop) ==
  \A t \in {"rfq_settings", "$app:rfq_settings"} : Len(metaobjects[shop][t]) = 0

\* C15: a settings read for a shop that has no settings record is answered
\* 200 with the four hardcoded defaults (settings records are never deleted,
\* so a shop without one now had none when the read ran).
C15_DefaultsWithoutRecord ==
  \A p \in SettingsReads :
    (procs[p].pc = "done" /\ NoSettingsRecord(procs[p].shop)) =>
      /\ Answered(p, 200)
      /\ procs[p].resp.body = "settings"
      /\ procs[p].settings = HardcodedDefaults

\* the read provisioned the settings type, queried the settings, found none
C15_Witness ==
  \E p \in SettingsReads :
    /\ procs[p].pc = "done"
    /\ NoSettingsRecord(procs[p].shop)
    /\ procs[p].faults = {}
    /\ {"defCreate", "settingsQuery"} \subseteq procs[p].calls
    /\ procs[p].settings = HardcodedDefaults

\* C16 as stated: every GET is answered with success, and with the four
\* hardcoded defaults when a remote step of it failed.
C16_EveryGetSucceeds ==
  \A p \in Procs :
    (procs[p].kind = "settingsRead" /\ procs[p].pc = "done") =>
      /\ Answered(p, 200)
      /\ procs[p].resp.body = "settings"
      /\ procs[p].faults # {} => procs[p].settings = HardcodedDefaults

\* C16: every GET that carries a shop parameter is answered 200 with a
\* settings body, and with the four hardcoded defaults whenever one of its
\* remote steps (authorization lookup, provisioning of the settings type,
\* settings query) failed; a GET without one is answered 400 before any
\* remote step.
C16_ReadWithShopNeverErrors ==
  /\ \A p \in SettingsReads :
       procs[p].pc = "done" =>
         /\ Answered(p, 200)
         /\ procs[p].resp.body = "settings"
         /\ procs[p].faults # {} =>
              /\ procs[p].settings = HardcodedDefaults
              /\ procs[p].failedAt \in {"auth", "defCheck", "defCreate",
                                        "settingsQuery"}
  /\ \A p \in Procs \ SettingsReads :
       procs[p].kind = "settingsRead" =>
         /\ Answered(p, 400)
         /\ procs[p].resp.text = "Shop parameter required"
         /\ procs[p].calls = {}

\* a message is saved for the shop, the read fails at provisioning and
\* answers with the defaults
C16_Witness ==
  \E p \in SettingsReads :
    /\ procs[p].pc = "done"
    /\ procs[p].failedAt \in {"defCheck", "defCreate"}
    /\ Answered(p, 200)
    /\ procs[p].settings = HardcodedDefaults
    /\ SavedSuccessMessage(procs[p].shop) = "Thanks!"

\* the settings records of a shop that the settings action writes
SavedSettings(shop) == metaobjects[shop]["rfq_settings"]

SettingsSaves == {p \in Procs : procs[p].kind = "settingsSave"}

SaveSucceeded(p) == Answered(p, 200) /\ procs[p].resp.body = "success"

C17_State ==
  /\ \A shop \in Shops :
       /\ Len(SavedSettings(shop)) <= 1
       /\ \A i \in 1..Len(SavedSettings(shop)) :
            SavedSettings(shop)[i].handle = <<"default-settings">>
  /\ \A p \in SettingsSaves :
       /\ procs[p].sform.settingsId # 0 =>
            procs[p].calls \cap {"recordCreate", "defCheck", "defCreate"} = {}
       /\ (procs[p].sform.settingsId = 0 /\ SaveSucceeded(p)) =>
            /\ "recordCreate" \in procs[p].calls
            /\ Len(SavedSettings(procs[p].shop)) = 1

\* the step in which the store answers the create or the update of a save
C17_CreateAnswered(p) ==
  /\ procs[p].kind = "settingsSave"
  /\ procs[p].pc = "createSettings"
  /\ procs'[p].pc # "createSettings"

C17_UpdateAnswered(p) ==
  /\ procs[p].kind = "settingsSave"
  /\ procs[p].pc = "update"
  /\ procs'[p].pc # "update"

Overlapping(p, q) ==
  /\ p # q
  /\ Limited(p) /\ Limited(q)
  /\ toLowerCase(procs[p].form.customerEmail) =
       toLowerCase(procs[q].form.customerEmail)
  /\ procs[q].pc \notin {"idle", "done"}
  /\ procs[q].admitted
  /\ procs[p].id > procs[q].id

FiveStatuses == {"pending", "contacted", "quoted", "completed", "cancelled"}

StatusUpdates ==
  {p \in Procs : /\ procs[p].kind = "submissionAction"
                 /\ procs[p].uform.action = "updateStatus"}

\* the step in which the store answers the update of the request of p
C19_UpdateAnswered(p) ==
  /\ p \in StatusUpdates
  /\ procs[p].pc = "submit"
  /\ procs'[p].pc = "done"

\* the store applied the update of the request of p
C19_Applied(p) ==
  /\ p \in StatusUpdates
  /\ procs[p].pc = "done"
  /\ "recordUpdate" \in procs[p].calls
  /\ "recordUpdate" \notin procs[p].faults

\* C19: an updateStatus action reaches the store with the status of its form,
\* whatever status the record has: when the store applies it, the record the
\* id names carries exactly that status and nothing else in the store has
\* changed; the action never looks at the record's status, and it is answered
\* with success unless the call throws.
C19_AnyStatusReplacesAny ==
  [][\A p \in Procs :
       C19_UpdateAnswered(p) =>
         LET old == SubmissionsOf(procs[p].shop)
             new == SubmissionsOf(procs[p].shop)'
             uf == procs[p].uform
         IN /\ "recordUpdate" \in procs'[p].calls
            /\ Len(new) = Len(old)
            /\ C19_Applied(p)' =>
                 /\ \E i \in 1..Len(old) : old[i].id = uf.id
                 /\ \A i \in 1..Len(old) :
                      new[i] = IF old[i].id = uf.id
                               THEN [old[i] EXCEPT !.fields.status = uf.status]
                               ELSE old[i]
                 /\ SaveSucceeded(p)'
            /\ ~C19_Applied(p)' => metaobjects' = metaobjects
            /\ procs'[p].failedAt = "none" => SaveSucceeded(p)']_vars

\* a record that was cancelled is pending again
C19_Witness ==
  \E p \in Procs : \E q \in Procs :
    /\ C19_Applied(p) /\ C19_Applied(q)
    /\ procs[q].id < procs[p].id
    /\ procs[q].uform.id = procs[p].uform.id
    /\ procs[q].uform.status = "cancelled"
    /\ procs[p].uform.status = "pending"
    /\ \E i \in 1..Len(SubmissionsOf("shop1")) :
         /\ SubmissionsOf("shop1")[i].id = procs[p].uform.id
         /\ SubmissionsOf("shop1")[i].fields.status = "pending"

Probes ==
  {p \in Procs : /\ procs[p].kind = "intake"
                 /\ procs[p].form.method = "OPTIONS"}

\* the step in which the request of p, a preflight probe, arrives
C20_ProbeArrives(p) ==
  /\ nreq' = nreq + 1
  /\ procs'[p].id = nreq'
  /\ p \in Probes'

PermissiveHeaders ==
  {<<"Access-Control-Allow-Origin", "*">>,
   <<"Access-Control-Allow-Methods", "GET, POST, OPTIONS">>,
   <<"Access-Control-Allow-Headers", "Content-Type">>}

C20_State ==
  \A p \in Probes :
    /\ Answered(p, 200)
    /\ procs[p].resp.body = "empty"
    /\ PermissiveHeaders \subseteq procs[p].resp.headers
    /\ ~procs[p].formRead
    /\ procs[p].calls = {}
    /\ procs[p].created = {}
    /\ procs[p].nth = 0

\* C20: an OPTIONS request to the intake endpoint, on either route and
\* whatever its fields, is answered in the step it arrives in with status
\* 200, an empty body and the permissive CORS headers; the form data is not
\* read, the rate-limit map, the sweep counter and the remote store are as
\* they were, and the request never makes a remote call.
C20_ProbeAnsweredFirst ==
  /\ []C20_State
  /\ [][\A p \in Procs :
          C20_ProbeArrives(p) =>
            /\ C20_State'
            /\ UNCHANGED <<rateLimitMap, cleanupCounter, hist, defs,
                           metaobjects>>]_vars

\* a probe without the required fields was answered while the rate-limit
\* map held an entry and a submission was in flight
C20_Witness ==
  \E p \in Probes : \E q \in Procs :
    /\ Answered(p, 200)
    /\ MissingRequired(procs[p].form)
    /\ procs[q].kind = "intake"
    /\ procs[q].id < procs[p].id
    /\ ~Free(q)
    /\ DOMAIN rateLimitMap # {}
    /\ cleanupCounter = 1

\* the requests whose handler called sendQuoteNotification
Notifications == {p \in Procs : procs[p].notified # "none"}

\* C21: with no email sender configured, every call of
\* sendQuoteNotification issues no send, logs the composed message and
\* returns true.
C21_UnconfiguredLogsAndSucceeds ==
  \A p \in Notifications :
    ~resendConfigured =>
      /\ "emailSend" \notin procs[p].calls
      /\ procs[p].logged
      /\ procs[p].sendResult = "true"

\* the part of it that holds: no send is issued, and a submission that
\* carries request details is logged and reported as success
C21_WithDetails ==
  \A p \in Notifications :
    ~resendConfigured =>
      /\ "emailSend" \notin procs[p].calls
      /\ procs[p].form.requestDetails # Null =>
           procs[p].logged /\ procs[p].sendResult = "true"

\* the create call of the routine for d, invoked by the request of p, was
\* answered with user errors that are no conflict
CreateRejected(p, d) == procs[p].ens[d].answer = "invalid"

\* C22: when a provisioning routine's create call is answered with an error
\* that is no already-exists conflict, the operation that invoked it fails:
\* it is not answered as if provisioning had succeeded.
C22_CreateErrorFailsCaller ==
  \A p \in Procs : \A d \in DefNames :
    (CreateRejected(p, d) /\ procs[p].pc = "done") =>
      procs[p].resp.status >= 500

\* the part of it that holds: the routines of the two record types
C22_TypeCreateErrorFailsCaller ==
  \A p \in Procs : \A d \in {RFQ_SUBMISSION_TYPE, RFQ_SETTINGS_TYPE} :
    (CreateRejected(p, d) /\ procs[p].pc = "done") =>
      procs[p].resp.status >= 500

\* the step in which the request of p arrives and runs the rate-limiting step
LimiterRuns(p) ==
  /\ nreq' = nreq + 1
  /\ procs'[p].id = nreq'
  /\ procs'[p].kind = "intake"
  /\ ReachesLimiter(procs'[p].form)

KeyOf(pr) == toLowerCase(pr.form.customerEmail)

\* the email has a record whose window has not expired
WindowActive(email) ==
  /\ HasRecord(rateLimitMap, email)
  /\ now <= rateLimitMap[email].resetTime

C23_State ==
  \A k \in DOMAIN rateLimitMap :
    rateLimitMap[k].count \in 1..RATE_LIMIT_MAX

\* C23: the window is fixed. A request that finds no active window for its
\* email sets resetTime to its own time plus one hour and count to 1; a
\* request inside an active window leaves resetTime as it is; a rejected
\* request leaves the record as it is; nothing but a request changes the
\* map, and count stays within 1..50.
C23_FixedWindow ==
  /\ []C23_State
  /\ [][\A p \in Procs :
          LimiterRuns(p) =>
            LET k == KeyOf(procs'[p])
            IN /\ HasRecord(rateLimitMap', k)
               /\ WindowActive(k) =>
                    rateLimitMap'[k].resetTime = rateLimitMap[k].resetTime
               /\ ~WindowActive(k) =>
                    rateLimitMap'[k] =
                      [count |-> 1, resetTime |-> now + RATE_LIMIT_WINDOW_MS]
               /\ ~procs'[p].admitted =>
                    /\ WindowActive(k)
                    /\ rateLimitMap'[k] = rateLimitMap[k]]_vars
  /\ [][(\A p \in Procs : ~LimiterRuns(p)) =>
          rateLimitMap' = rateLimitMap]_vars

\* an admitted and a rejected request arrived after the start of the window
\* and its end is still the start plus one hour
C23_Witness ==
  \E p \in Procs :
    /\ Answered(p, 429)
    /\ now = RATE_LIMIT_WINDOW_MS + 1
    /\ rateLimitMap[KeyOf(procs[p])] =
         [count |-> RATE_LIMIT_MAX, resetTime |-> 2 * RATE_LIMIT_WINDOW_MS]

\* the records of the shop that carry the email in this spelling
SubmissionsSpelled(shop, e) ==
  {i \in 1..Len(SubmissionsOf(shop)) :
     SubmissionsOf(shop)[i].fields.customer_email = e}

C24_State ==
  /\ DOMAIN rateLimitMap \subseteq {EmailA}
  /\ Len(SubmissionsOf("shop1")) <= RATE_LIMIT_MAX

\* C24: the spellings of an email that differ in letter case share one
\* record, kept under the lower-case spelling: a request in either spelling
\* is admitted exactly when fewer than 50 requests in any spelling were
\* admitted before it (each of them has created its record), so at most 50
\* records exist whatever the mix.
C24_CaseVariantsShareRecord ==
  /\ []C24_State
  /\ [][\A p \in Procs :
          LimiterRuns(p) =>
            (procs'[p].admitted <=>
               Len(SubmissionsOf("shop1")) < RATE_LIMIT_MAX)]_vars

\* 50 requests in both spellings were admitted and the upper-case one that
\* follows is rejected
C24_Witness ==
  /\ Answered(1, 429)
  /\ procs[1].form.customerEmail = EmailAUpper
  /\ SubmissionsSpelled("shop1", EmailA) # {}
  /\ SubmissionsSpelled("shop1", EmailAUpper) # {}
  /\ Len(SubmissionsOf("shop1")) = RATE_LIMIT_MAX

\* the execution of the rate-limiting step that this step performs is the
\* 100th, 200th, ... since the process started
SweepDue == (cleanupCounter + 1) \in {100 * n : n \in 1..3}

\* C25: every execution of the rate-limiting step, a rejected one included,
\* counts one; on the 100th, 200th, ... execution every record of another
\* email whose window has expired is removed and every other one is left as
\* it is; on any other execution no record is removed; the record of the
\* request's own email is there afterwards, a fresh one if its window had
\* expired; and no other step changes the map or the counter.
C25_SweepEveryHundredth ==
  /\ [][\A p \in Procs :
          LimiterRuns(p) =>
            LET k == KeyOf(procs'[p])
            IN /\ cleanupCounter' = cleanupCounter + 1
               /\ DOMAIN rateLimitMap' \subseteq DOMAIN rateLimitMap \cup {k}
               /\ \A e \in DOMAIN rateLimitMap \ {k} :
                    IF SweepDue /\ now > rateLimitMap[e].resetTime
                    THEN e \notin DOMAIN rateLimitMap'
                    ELSE /\ e \in DOMAIN rateLimitMap'
                         /\ rateLimitMap'[e] = rateLimitMap[e]
               /\ k \in DOMAIN rateLimitMap'
               /\ (k \in DOMAIN rateLimitMap /\ now > rateLimitMap[k].resetTime)
                    => rateLimitMap'[k] =
                         [count |-> 1,
                          resetTime |-> now + RATE_LIMIT_WINDOW_MS]]_vars
  /\ [][(\A p \in Procs : ~LimiterRuns(p)) =>
          UNCHANGED <<rateLimitMap, cleanupCounter>>]_vars

\* the 100th execution, a rejected one, has removed the expired record of
\* the other email and kept its own, whose window ends this millisecond
C25_Witness ==
  /\ cleanupCounter = 100
  /\ Answered(1, 429)
  /\ EmailB \in DOMAIN hist
  /\ EmailB \notin DOMAIN rateLimitMap
  /\ EmailA \in DOMAIN rateLimitMap
  /\ rateLimitMap[EmailA].resetTime = now

\* the requests that ran the rate-limiting step
LimiterRequests ==
  {p \in Procs : procs[p].kind = "intake" /\ ReachesLimiter(procs[p].form)}

\* what the sweep has taken from the map is what the limiter without the
\* sweep holds as expired records
C26_State ==
  /\ DOMAIN rateLimitMap \subseteq DOMAIN unsweptMap
  /\ \A e \in DOMAIN unsweptMap :
       IF e \in DOMAIN rateLimitMap
       THEN rateLimitMap[e] = unsweptMap[e]
       ELSE now > unsweptMap[e].resetTime

\* C26: every request gets from the limiter with the sweep the decision it
\* gets from the same limiter run without the sweep on the same requests at
\* the same times, and the two maps differ only in expired records.
C26_SweepChangesNoDecision ==
  /\ C26_State
  /\ \A p \in LimiterRequests :
       procs[p].admitted = procs[p].admittedUnswept

\* after the sweep of the 100th execution has removed the record of the
\* other email, which the limiter without the sweep still holds, a request
\* for that email is admitted by both
C26_Witness ==
  /\ cleanupCounter = 101
  /\ 1 \in LimiterRequests
  /\ procs[1].form.customerEmail = EmailB
  /\ procs[1].admitted
  /\ EmailB \in DOMAIN hist
  /\ now > hist[EmailB].first + RATE_LIMIT_WINDOW_MS
  /\ EmailA \in DOMAIN rateLimitMap
  /\ rateLimitMap[EmailA].count = RATE_LIMIT_MAX

\* the intake requests that have been answered
AnsweredIntakes == {p \in IntakeProcs : procs[p].pc = "done"}

\* C27: an intake request is answered {success: true} exactly when it has
\* created a submission record; a request answered with an error has
\* created none.
C27_SuccessIffRecord ==
  \A p \in AnsweredIntakes :
    /\ procs[p].form.method # "OPTIONS" =>
         (SuccessResponse(p) <=> CreatedRecords(p) # {})
    /\ procs[p].resp.status \in {400, 429, 500} => CreatedRecords(p) = {}

\* its two directions
C27_ErrorMeansNoRecord ==
  \A p \in AnsweredIntakes :
    procs[p].resp.status \in {400, 429, 500} => CreatedRecords(p) = {}

C27_SuccessMeansRecord ==
  \A p \in AnsweredIntakes :
    SuccessResponse(p) => CreatedRecords(p) # {}

\* the part that holds: a request rejected before persistence, or whose
\* create call was rejected with user errors, has created no record
C27_RejectedMeansNoRecord ==
  \A p \in AnsweredIntakes :
    (\/ procs[p].resp.status \in {400, 429}
     \/ procs[p].failedAt \in {"auth", "ensure"}
     \/ procs[p].createData = "userErrors") => CreatedRecords(p) = {}

\* the step in which the request of p arrives and is rejected with 400
InvalidArrives(p) ==
  /\ nreq' = nreq + 1
  /\ procs'[p].id = nreq'
  /\ procs'[p].kind = "intake"
  /\ procs'[p].resp.status = 400

\* C28: a request rejected with 400 leaves the rate-limit map and the sweep
\* counter as they were and makes no call, so the requests after it meet the
\* limiter in the state the valid requests before it left, and the sweep
\* runs on the 100th valid request however many invalid ones came between.
C28_InvalidLeavesLimiterAlone ==
  /\ [][\A p \in Procs :
          InvalidArrives(p) =>
            /\ UNCHANGED <<rateLimitMap, cleanupCounter, unsweptMap>>
            /\ procs'[p].pc = "done"
            /\ procs'[p].calls = {}]_vars
  /\ [][\A p \in Procs :
          (LimiterRuns(p) /\ DOMAIN rateLimitMap' # DOMAIN unsweptMap') =>
            cleanupCounter' >= CleanupEvery]_vars

\* an invalid request came between the valid ones and the sweep ran on the
\* 100th valid request, the 101st in all
C28_Witness ==
  /\ cleanupCounter = 100
  /\ nreq = 101
  /\ Answered(1, 429)
  /\ EmailB \in DOMAIN unsweptMap
  /\ EmailB \notin DOMAIN rateLimitMap
  /\ rateLimitMap[EmailA].count = RATE_LIMIT_MAX

\* the records of all shops that carry the email
RecordsFor(e) ==
  {x \in UNION {{<<s, i>> : i \in 1..Len(SubmissionsOf(s))} : s \in Shops} :
     toLowerCase(SubmissionsOf(x[1])[x[2]].fields.customer_email) = e}

SlotsIn(map, e) == IF HasRecord(map, e) THEN map[e].count ELSE 0

SlotsUsed(e) == SlotsIn(rateLimitMap, e)

C29_State ==
  \A e \in DOMAIN rateLimitMap :
    /\ Cardinality(RecordsFor(e)) <= SlotsUsed(e)
    /\ SlotsUsed(e) <= RATE_LIMIT_MAX

\* C29: within a window the count of an email's record goes up by one with
\* every request the limiter admits for the email, whatever shop it names,
\* and with nothing else: a rejected request leaves it, and so does every
\* later step of an admitted request, the failing ones included. The
\* records created for the email in all shops are never more than the
\* slots used, and those never more than 50.
C29_CountIsAdmittedRequests ==
  /\ []C29_State
  /\ [][\A p \in Procs :
          LimiterRuns(p) =>
            LET k == KeyOf(procs'[p])
            IN WindowActive(k) =>
                 SlotsIn(rateLimitMap', k) =
                   SlotsUsed(k) + (IF procs'[p].admitted THEN 1 ELSE 0)]_vars
  /\ [][(\A p \in Procs : ~LimiterRuns(p)) =>
          rateLimitMap' = rateLimitMap]_vars

\* all 50 slots are used and a request is rejected, while fewer than 50
\* records exist, in two shops: a request that failed with 500 used a slot
C29_Witness ==
  /\ Answered(1, 429)
  /\ SlotsUsed(EmailA) = RATE_LIMIT_MAX
  /\ Cardinality(RecordsFor(EmailA)) < RATE_LIMIT_MAX
  /\ SubmissionsOf("shop1") # <<>>
  /\ SubmissionsOf("shop2") # <<>>

\* the notification email of the record the settings action wrote
SavedNotificationEmail(shop) ==
  IF shop \notin Shops \/ Len(metaobjects[shop]["rfq_settings"]) = 0
  THEN ""
  ELSE metaobjects[shop]["rfq_settings"][1].fields.notification_email

\* the step in which the settings query of the dashboard load of p is
\* answered
DashboardAnswered(p) ==
  /\ procs[p].kind = "dashboardLoad"
  /\ procs[p].pc = "dashSettings"
  /\ procs'[p].pc = "countAll"

C30_State ==
  \A p \in Procs :
    (procs[p].kind = "dashboardLoad" /\ Answered(p, 200)) =>
      (procs[p].hasSettings <=> procs[p].notificationEmail \notin {Null, ""})

\* C30: a reader whose settings query is answered while the record the
\* settings action wrote carries a non-empty notification email finds that
\* email: the dashboard load reports hasSettings = true, and the intake
\* request that has created its record goes on to notify that address.
C30_SavedRecordIsRead ==
  /\ []C30_State
  /\ [][\A p \in Procs :
          LET saved == SavedNotificationEmail(procs[p].shop)
          IN saved # "" =>
               /\ DashboardAnswered(p) =>
                    procs'[p].notificationEmail = saved
               /\ (SettingsAnswered(p) /\ procs[p].createData = "ok") =>
                    /\ procs'[p].notificationEmail = saved
                    /\ procs'[p].pc = "notify"]_vars

\* the same for the intake requests of the rate-limited route alone
C30_OnProxyRoute ==
  [][\A p \in Procs :
       LET saved == SavedNotificationEmail(procs[p].shop)
       IN (/\ saved # ""
           /\ SettingsAnswered(p)
           /\ procs[p].form.route = "proxy"
           /\ procs[p].createData = "ok") =>
             /\ procs'[p].notificationEmail = saved
             /\ procs'[p].pc = "notify"]_vars

\* the dashboard reports hasSettings = false although a notification email
\* is saved
C30_DashboardMissesSaved ==
  \E p \in Procs :
    /\ procs[p].kind = "dashboardLoad"
    /\ Answered(p, 200)
    /\ ~procs[p].hasSettings
    /\ SavedNotificationEmail("shop1") = MerchantEmail

\* the dashboard's part and the intake action's part of it
C30_DashboardReadsSaved ==
  [][\A p \in Procs :
       (SavedNotificationEmail(procs[p].shop) # "" /\ DashboardAnswered(p)) =>
         procs'[p].notificationEmail =
           SavedNotificationEmail(procs[p].shop)]_vars

C30_IntakeReadsSaved ==
  [][\A p \in Procs :
       (/\ SavedNotificationEmail(procs[p].shop) # ""
        /\ SettingsAnswered(p)
        /\ procs[p].createData = "ok") =>
          procs'[p].notificationEmail =
            SavedNotificationEmail(procs[p].shop)]_vars

====
